---- MODULE Spec2Model ----
(***************************************************************************)
(* Model of the visualizer pipeline of magentic_marketplace/               *)
(* unified_server.py: the endpoint get_visualizer_marketplace_data reads   *)
(* the agents and the action log of one experiment schema, decodes the     *)
(* action rows into messages (_load_messages), folds the messages into     *)
(* per-(customer, business) threads (_create_message_threads), assigns a   *)
(* utility to every thread with a payment, sorts the threads and builds    *)
(* the analytics dictionaries of the report.                               *)
(*                                                                         *)
(* created_at values are the ISO-8601 texts of instants; every instant of  *)
(* the model is written with the same offset and precision, so the order   *)
(* of the texts is the order of the instants, and a created_at is          *)
(* represented by its instant (an integer).                                *)
(***************************************************************************)
EXTENDS Integers, Sequences, FiniteSets, TLC

\* Longest action log (rows of db.actions).
MaxRows == 3
\* A SendMessage carries the created_at its sender stamped on it; it can be
\* up to MaxLag ticks older than the instant the row was inserted.
MaxLag == 2
\* Most requests the orchestrator app answers.
MaxRequests == 3

\* Most background runs scheduled.
MaxTasks == 2

\* Most calls of list_experiments.
MaxLists == 2

\* Most schemas the database holds.
MaxSchemas == 2

\* Most calls of from_cache or of the constructor one thread makes.
MaxCalls == 2

\* Longest argument of validate_schema_name, in characters.
MaxNameLen == 3

\* Longest action log of the specifications with the wider inputs, the
\* storage faults and the second invocation.
MaxShortRows == 2

\* Python's None where an agent id or a message type is expected.
None == "None"
\* Python's None where a dictionary is expected (dict.get of a missing key).
NoEntry == [none |-> TRUE]
\* Python's None where a row id is expected; row ids start at 1.
NoId == 0

(***************************************************************************)
(* Storage: the agents table and the inputs of the action log.             *)
(***************************************************************************)

\* Rows of db.agents.get_all(): agent ids are free-form strings and may
\* hold hyphens; "ghost" is an id that appears in actions and is no agent.
AgentRows ==
    << [id |-> "cust",   role |-> "customer"],
       [id |-> "biz",    role |-> "business"],
       [id |-> "cust-1", role |-> "customer"],
       [id |-> "1-biz",  role |-> "business"] >>

\* SendMessage requests agents issue: <<from_agent_id, to_agent_id, message type>>.
SendRequests ==
    { <<"cust",   "biz",    "text">>,
      <<"cust",   "biz",    "payment">>,
      <<"biz",    "cust",   "payment">>,
      <<"biz",    "cust",   "order_proposal">>,
      <<"cust-1", "biz",    "text">>,
      <<"cust",   "1-biz",  "payment">>,
      <<"cust",   "ghost",  "payment">> }

\* Search requests: <<searching agent, ids of the businesses in the result>>.
SearchRequests ==
    { <<"cust", <<"biz", "1-biz">> >>,
      <<"cust", <<"ghost", "biz">> >>,
      <<"biz",  <<"biz">> >> }

\* Lags between the sender's stamp and the insertion of the row.
Lags == {0, MaxLag}

\* The server clock at the insertion of the i-th row: one tick per row.
RowTime(i) == MaxLag + i

\* An action row of a SendMessage: request.parameters hold the action
\* (from_agent_id, to_agent_id, created_at, message), result.is_error the outcome.
SendRow(i, req, lag, err) ==
    [ id |-> i, created_at |-> RowTime(i), agent_id |-> req[1],
      is_error |-> err, kind |-> "SendMessage",
      from_agent_id |-> req[1], to_agent_id |-> req[2],
      action_created_at |-> RowTime(i) - lag,
      message_type |-> req[3], businesses |-> <<>> ]

\* An action row of a Search: result.content["businesses"] holds the matches.
SearchRow(i, req) ==
    [ id |-> i, created_at |-> RowTime(i), agent_id |-> req[1],
      is_error |-> FALSE, kind |-> "Search",
      from_agent_id |-> None, to_agent_id |-> None,
      action_created_at |-> RowTime(i),
      message_type |-> None, businesses |-> req[2] ]

\* An action row of another action kind (FetchMessages): it decodes, and is
\* neither a SendMessage nor a Search.
OtherRow(i, agent) ==
    [ id |-> i, created_at |-> RowTime(i), agent_id |-> agent,
      is_error |-> FALSE, kind |-> "FetchMessages",
      from_agent_id |-> None, to_agent_id |-> None,
      action_created_at |-> RowTime(i),
      message_type |-> None, businesses |-> <<>> ]

\* An action row whose request.parameters ActionAdapter cannot validate.
UndecodableRow(i, agent) ==
    [ id |-> i, created_at |-> RowTime(i), agent_id |-> agent,
      is_error |-> FALSE, kind |-> "Malformed",
      from_agent_id |-> None, to_agent_id |-> None,
      action_created_at |-> RowTime(i),
      message_type |-> None, businesses |-> <<>> ]

\* SendMessage requests whose two agents are not a customer and a business.
DroppedRequests ==
    { <<"cust", "cust-1", "payment">>,
      <<"biz",  "1-biz",  "text">>,
      <<"ghost", "biz",   "text">> }

\* A search whose result lists a business twice.
DuplicateSearchRequests == { <<"cust", <<"biz", "biz">> >> }

\* An agent row whose data validates neither as a customer nor as a business.
MalformedAgentRow == [id |-> "broken", role |-> "malformed"]

\* The experiment schemas: the action log of "exp_a" is the variable log,
\* the one of "exp_b" is OtherSchemaLog.
Schemas == {"exp_a", "exp_b"}

OtherSchemaLog == << SendRow(1, <<"cust", "biz", "payment">>, 0, FALSE) >>

\* A storage handle shared by the invocations: every schema reads one log.
RowsOfSharedHandle(schema, rows) == rows

\* db.actions.get_all() of a schema.
RowsOf(schema, rows) == IF schema = "exp_a" THEN rows ELSE OtherSchemaLog

VARIABLES
    log,                    \* db.actions: the rows, in insertion order
    pc,                     \* position of the one invocation of the endpoint
    customers,              \* list returned by _load_customers
    businesses,             \* list returned by _load_businesses
    messages,               \* list returned by _load_messages
    cursor,                 \* index of the next message of the fold
    threads,                \* dict thread_key -> thread
    thread_order,           \* keys of threads in insertion order
    threads_with_payments,  \* set of thread keys
    analytics,              \* MarketplaceAnalytics after analyze_actions
    report,                 \* the response of the endpoint
    agents,                 \* db.agents: the rows, in insertion order
    storage_up,             \* whether the database answers
    warnings,               \* ids of the rows logger.warning reported
    other,                  \* the locals of a second invocation
    name,                   \* the argument of a call of validate_schema_name
    validated,              \* what the call returned
    experiment_tracker,     \* api/main.py: experiment name -> ExperimentStatus
    background_tasks,       \* the runs scheduled with background_tasks.add_task
    request,                \* the request the orchestrator app handled last
    response,               \* its response
    served,                 \* the number of requests answered
    clock,                  \* datetime.now(UTC), as a tick count
    client_cache,           \* AzureOpenAIClient._client_cache
    cache_lock,             \* AzureOpenAIClient._cache_lock: its holder
    callers,                \* the threads that call from_cache
    constructed,            \* the configs AzureOpenAIClient.__init__ ran for
    lister,                 \* list_experiments: position and locals of a call
    connections,            \* the asyncpg connections list_experiments opened
    passed,                 \* schemas handed to connect_to_postgresql_database
    generate                \* AzureOpenAIClient._generate: position and locals

vars == << log, pc, customers, businesses, messages, cursor, threads,
           thread_order, threads_with_payments, analytics, report,
           agents, storage_up, warnings, other,
           name, validated,
           experiment_tracker, background_tasks, request, response,
           served, clock,
           client_cache, cache_lock, callers, constructed,
           lister, connections, passed, generate >>

\* The state outside the first invocation's own locals and the action log.
env == << agents, storage_up, warnings, other >>

\* The state of the visualizer endpoint and of its database.
visualizer == << log, pc, customers, businesses, messages, cursor, threads,
                thread_order, threads_with_payments, analytics, report,
                agents, storage_up, warnings, other >>

\* The state of a call of validate_schema_name.
names_vars == << name, validated >>

\* The state of the orchestrator app.
api_vars == << experiment_tracker, background_tasks, request, response,
               served, clock >>

\* The state of the client cache and of the threads that use it.
cache_vars == << client_cache, cache_lock, callers, constructed >>

\* The state outside the visualizer.
rest == << names_vars, api_vars, cache_vars,
           lister, connections, passed, generate >>

\* The state of list_experiments and of the schema path parameters.
list_vars == << lister, connections, passed >>

\* The state of the later endpoints and of _generate.
late == << list_vars, generate >>

(***************************************************************************)
(* _load_customers, _load_businesses, _load_messages                       *)
(***************************************************************************)

\* The customer dictionary built from one agent row.
CustomerData(row) == [id |-> row.id, user_request |-> "request"]

\* The business dictionary built from one agent row.
BusinessData(row) == [id |-> row.id, rating |-> "rating"]

RECURSIVE LoadCustomers(_)
LoadCustomers(rows) ==
    IF rows = <<>> THEN <<>>
    ELSE IF Head(rows).role = "customer"
         THEN <<CustomerData(Head(rows))>> \o LoadCustomers(Tail(rows))
         ELSE LoadCustomers(Tail(rows))

RECURSIVE LoadBusinesses(_)
LoadBusinesses(rows) ==
    IF rows = <<>> THEN <<>>
    ELSE IF Head(rows).role = "business"
         THEN <<BusinessData(Head(rows))>> \o LoadBusinesses(Tail(rows))
         ELSE LoadBusinesses(Tail(rows))

\* The message dictionary of a SendMessage row.
SendMessageData(row) ==
    [ id |-> row.id, to_agent |-> row.to_agent_id,
      from_agent |-> row.from_agent_id, type |-> row.message_type,
      content |-> [type |-> row.message_type],
      created_at |-> row.action_created_at ]

\* The message dictionary of a Search row; business_ids is kept on the
\* message for the thread matching and is also part of its content.
SearchMessageData(row) ==
    [ id |-> row.id, from_agent |-> row.agent_id, to_agent |-> None,
      type |-> "search",
      content |-> [ type |-> "search", business_ids |-> row.businesses,
                    total_results |-> Len(row.businesses) ],
      created_at |-> row.created_at, business_ids |-> row.businesses ]

\* The rows' messages without the test of action_result.is_error.
RowMessagesOfFailed(row) ==
    IF row.kind = "SendMessage" THEN <<SendMessageData(row)>>
    ELSE IF row.kind = "Search" THEN <<SearchMessageData(row)>>
    ELSE <<>>

\* The messages one row contributes: none for an error row or another kind.
RowMessages(row) ==
    IF row.is_error THEN <<>>
    ELSE IF row.kind = "SendMessage" THEN <<SendMessageData(row)>>
    ELSE IF row.kind = "Search" THEN <<SearchMessageData(row)>>
    ELSE <<>>

RECURSIVE LoadMessages(_)
LoadMessages(rows) ==
    IF rows = <<>> THEN <<>>
    ELSE RowMessages(Head(rows)) \o LoadMessages(Tail(rows))

\* The row ids _load_messages reports with logger.warning: the rows whose
\* parameters raise in ActionAdapter.validate_python.
RowWarnings(row) ==
    IF row.is_error THEN <<>>
    ELSE IF row.kind = "Malformed" THEN <<row.id>>
    ELSE <<>>

RECURSIVE LoadWarnings(_)
LoadWarnings(rows) ==
    IF rows = <<>> THEN <<>>
    ELSE RowWarnings(Head(rows)) \o LoadWarnings(Tail(rows))

\* MarketplaceAgentProfileAdapter.validate_python raises on one of the rows;
\* neither _load_customers nor _load_businesses catches it.
AgentRowRaises(rows) ==
    \E i \in DOMAIN rows : rows[i].role \notin {"customer", "business"}

(***************************************************************************)
(* _create_message_threads                                                 *)
(***************************************************************************)

\* {x["id"]: x for x in items}: the last item of an id wins.
ById(items) ==
    [ id \in { items[i].id : i \in DOMAIN items } |->
        items[ CHOOSE i \in DOMAIN items :
                  /\ items[i].id = id
                  /\ \A j \in DOMAIN items : items[j].id = id => j <= i ] ]

\* A lookup that falls back to an entry of the dict for an absent key.
DictGetFirst(d, k) ==
    IF k \in DOMAIN d THEN d[k]
    ELSE IF DOMAIN d = {} THEN NoEntry
    ELSE d[CHOOSE x \in DOMAIN d : TRUE]

\* d.get(k)
DictGet(d, k) == IF k \in DOMAIN d THEN d[k] ELSE NoEntry

\* a or b, for values that are a non-empty dictionary or None.
PyOr(a, b) == IF a # NoEntry THEN a ELSE b

\* f"{customer_id}-{business_id}"
ThreadKey(customer_id, business_id) == customer_id \o "-" \o business_id

\* A new thread with the two profiles in each other's place.
SwappedParticipants(customer, business, message) ==
    [ participants |-> [customer |-> business, business |-> customer],
      messages |-> <<>>,
      lastMessageTime |-> message.created_at,
      utility |-> 0 ]

\* The thread stored under a key that is not in threads yet.
NewThread(customer, business, message) ==
    [ participants |-> [customer |-> customer, business |-> business],
      messages |-> <<>>,
      lastMessageTime |-> message.created_at,
      utility |-> 0 ]

\* The value lastMessageTime is set to when a message is appended to a thread.
RefreshedTime(thread, message) == message.created_at

\* Get-or-create threads[key], append `stored` to its messages and set its
\* lastMessageTime.  st is the state of the fold: the dict, the insertion
\* order of its keys and the set threads_with_payments.
AddToThread(st, key, customer, business, stored, message) ==
    LET isNew == key \notin DOMAIN st.threads
        got   == IF isNew THEN NewThread(customer, business, message)
                          ELSE st.threads[key]
        upd   == [ got EXCEPT !.messages = Append(@, stored),
                              !.lastMessageTime = RefreshedTime(got, message) ]
    IN  [ threads |-> [ k \in DOMAIN st.threads \cup {key} |->
                          IF k = key THEN upd ELSE st.threads[k] ],
          order   |-> IF isNew THEN Append(st.order, key) ELSE st.order,
          paid    |-> st.paid ]

\* The message itself, with nothing popped.
ThreadCopyKeepingIds(message) == message

\* message.copy() with the business_ids field popped.
ThreadCopy(message) ==
    [ f \in DOMAIN message \ {"business_ids"} |-> message[f] ]

\* The loop over message["business_ids"] of a search message.
RECURSIVE FanOut(_, _, _, _, _)
FanOut(st, customer, message, ids, bidx) ==
    IF ids = <<>> THEN st
    ELSE LET business_id == Head(ids)
             business    == DictGet(bidx, business_id)
             next == IF business # NoEntry
                     THEN AddToThread(st, ThreadKey(customer.id, business_id),
                                      customer, business,
                                      ThreadCopy(message), message)
                     ELSE st
         IN  FanOut(next, customer, message, Tail(ids), bidx)

\* The branch of a search message.
SearchStep(st, message, cidx, bidx) ==
    LET customer == DictGet(cidx, message.from_agent)
    IN  IF customer # NoEntry
        THEN FanOut(st, customer, message, message.business_ids, bidx)
        ELSE st

\* A thread key built from the direction of the message instead of the roles.
DirectionKey(message, customer, business) ==
    ThreadKey(message.from_agent, message.to_agent)

\* thread_key of a regular message resolved to a customer and a business.
PairKey(message, customer, business) == ThreadKey(customer.id, business.id)

\* Whether a message appended to a thread marks the thread as paid.
IsCustomerPayment(message, customer_id) ==
    message.type = "payment" /\ message.from_agent = customer_id

\* The branch of a regular message (SendMessage).
RegularStep(st, message, cidx, bidx) ==
    LET customer == PyOr(DictGet(cidx, message.from_agent),
                         DictGet(cidx, message.to_agent))
        business == PyOr(DictGet(bidx, message.from_agent),
                         DictGet(bidx, message.to_agent))
    IN  IF customer # NoEntry /\ business # NoEntry
        THEN LET thread_key == PairKey(message, customer, business)
                 added == AddToThread(st, thread_key, customer, business,
                                      message, message)
             IN  [ added EXCEPT !.paid =
                     IF IsCustomerPayment(message, customer.id)
                     THEN @ \cup {thread_key} ELSE @ ]
        ELSE st

\* A dict and a set kept at module level and shared by the calls.
SharedStartOfFold(held) == held

\* threads = {}, threads_with_payments = set(): every call starts from new
\* ones, whatever the dict and set of another call hold.
StartOfFold(held) == [ threads |-> <<>>, order |-> <<>>, paid |-> {} ]

\* Whether a message takes the search branch.
IsSearch(message) ==
    message.type = "search" /\ "business_ids" \in DOMAIN message

\* One iteration of `for message in messages`.
ProcessMessage(st, message, cidx, bidx) ==
    IF IsSearch(message)
    THEN SearchStep(st, message, cidx, bidx)
    ELSE RegularStep(st, message, cidx, bidx)

\* thread_message = message with no copy made: the pop acts on the one
\* object that both names refer to.
AliasThenPop(message) ==
    [ message |-> ThreadCopy(message), thread_message |-> ThreadCopy(message) ]

\* thread_message = message.copy(); thread_message.pop("business_ids", None):
\* the object each of the two names refers to afterwards.
CopyThenPop(message) ==
    [ message |-> message, thread_message |-> ThreadCopy(message) ]

\* The object of the input list after its iteration of the loop: only the
\* search branch, once a customer and a business are found, executes
\* statements that write to a message object.
MessageAfter(message, cidx, bidx) ==
    IF /\ IsSearch(message)
       /\ DictGet(cidx, message.from_agent) # NoEntry
       /\ \E i \in DOMAIN message.business_ids :
              DictGet(bidx, message.business_ids[i]) # NoEntry
    THEN CopyThenPop(message).message
    ELSE message

\* The whole loop `for message in messages`.
RECURSIVE FoldAll(_, _, _, _)
FoldAll(st, list, cidx, bidx) ==
    IF list = <<>> THEN st
    ELSE FoldAll(ProcessMessage(st, Head(list), cidx, bidx),
                 Tail(list), cidx, bidx)

(***************************************************************************)
(* MarketplaceAnalytics (experiments/run_analytics.py): the payment        *)
(* attribution and the summaries the endpoint reads from it.               *)
(***************************************************************************)

\* The ids of the agents of a role.
AgentIdsOf(role) ==
    { AgentRows[i].id : i \in { j \in DOMAIN AgentRows : AgentRows[j].role = role } }

\* The rows of a log that hold an executed message of a type.
MessageRows(rows, type) ==
    { rows[i] : i \in { j \in DOMAIN rows :
                          /\ ~rows[j].is_error
                          /\ rows[j].kind = "SendMessage"
                          /\ rows[j].message_type = type } }

\* Action a precedes action b: by created_at, ties by id.
Precedes(a, b) ==
    \/ a.action_created_at < b.action_created_at
    \/ a.action_created_at = b.action_created_at /\ a.id < b.id

\* The proposals a payment can be attributed to: sent before it by the
\* business it pays, to the customer who pays.
QualifyingProposals(rows, payment) ==
    { q \in MessageRows(rows, "order_proposal") :
          /\ q.to_agent_id = payment.from_agent_id
          /\ q.from_agent_id = payment.to_agent_id
          /\ Precedes(q, payment) }

\* The earliest qualifying proposal instead of the nearest one.
EarliestProposal(candidates) ==
    CHOOSE q \in candidates : \A r \in candidates : r = q \/ Precedes(q, r)

\* The proposal chosen among the qualifying ones: the nearest preceding one.
NearestProposal(candidates) ==
    CHOOSE q \in candidates : \A r \in candidates : r = q \/ Precedes(r, q)

\* The id of the proposal a payment is attributed to, NoId when unattributed.
AttributedProposal(rows, payment) ==
    LET candidates == QualifyingProposals(rows, payment)
    IN  IF candidates = {} THEN NoId
        ELSE NearestProposal(candidates).id

\* The payment records of one customer, in log order.
RECURSIVE PaymentsOf(_, _, _)
PaymentsOf(rows, all, customer_id) ==
    IF rows = <<>> THEN <<>>
    ELSE LET row == Head(rows)
             rec == [ id |-> row.id, customer_id |-> customer_id,
                      business_id |-> row.to_agent_id,
                      proposal_message_id |-> AttributedProposal(all, row) ]
         IN  IF /\ row \in MessageRows(all, "payment")
                /\ row.from_agent_id = customer_id
             THEN <<rec>> \o PaymentsOf(Tail(rows), all, customer_id)
             ELSE PaymentsOf(Tail(rows), all, customer_id)

\* analytics._find_business_for_proposal
FindBusinessForProposal(proposals, proposal_id) ==
    IF \E q \in proposals : q.id = proposal_id
    THEN (CHOOSE q \in proposals : q.id = proposal_id).from_agent_id
    ELSE None

\* analytics.calculate_conversation_utility: the scoring policy is injected;
\* this one gives every (customer, business) pair a score of its own.
ConversationUtility(customer_id, business_id) ==
    10 * Len(customer_id) + Len(business_id)

RECURSIVE SumOver(_, _)
SumOver(f, S) ==
    IF S = {} THEN 0
    ELSE LET x == CHOOSE y \in S : TRUE IN f[x] + SumOver(f, S \ {x})

\* The analytics object after load_data and analyze_actions over a log.
Analyze(rows) ==
    LET proposals == MessageRows(rows, "order_proposal")
        payments  == MessageRows(rows, "payment")
        paid(c, b) == \E p \in payments : p.from_agent_id = c /\ p.to_agent_id = b
        cu == [ c \in AgentIdsOf("customer") |->
                  SumOver([ b \in AgentIdsOf("business") |->
                              IF paid(c, b) THEN ConversationUtility(c, b) ELSE 0 ],
                          AgentIdsOf("business")) ]
        bu == [ b \in AgentIdsOf("business") |->
                  SumOver([ c \in AgentIdsOf("customer") |->
                              IF paid(c, b) THEN ConversationUtility(c, b) ELSE 0 ],
                          AgentIdsOf("customer")) ]
    IN  [ proposals |-> proposals,
          customer_payments |->
              [ c \in AgentIdsOf("customer") |-> PaymentsOf(rows, rows, c) ],
          customer_summaries |->
              [ c \in AgentIdsOf("customer") |->
                  [ customer_id |-> c, utility |-> cu[c],
                    payments_made |->
                        Cardinality({ p \in payments : p.from_agent_id = c }),
                    proposals_received |->
                        Cardinality({ q \in proposals : q.to_agent_id = c }) ] ],
          business_summaries |->
              [ b \in AgentIdsOf("business") |->
                  [ business_id |-> b, utility |-> bu[b],
                    proposals_sent |->
                        Cardinality({ q \in proposals : q.from_agent_id = b }) ] ],
          total_marketplace_customer_utility |->
              SumOver(cu, AgentIdsOf("customer")),
          transaction_summary |->
              [ payments_made |-> Cardinality(payments),
                order_proposals_created |-> Cardinality(proposals) ] ]

(***************************************************************************)
(* get_visualizer_marketplace_data: utilities, sorting, analytics dicts    *)
(***************************************************************************)

\* The utility computed with the two ids in the wrong argument places.
SwappedThreadUtility(thread) ==
    ConversationUtility(thread.participants.business.id,
                        thread.participants.customer.id)

\* thread["utility"] of a thread whose key is in threads_with_payments.
ThreadUtility(thread) ==
    ConversationUtility(thread.participants.customer.id,
                        thread.participants.business.id)

\* The loop `for thread_key in threads_with_payments`.
AssignUtilities(dict, paid) ==
    [ k \in DOMAIN dict |->
        IF k \in paid THEN [ dict[k] EXCEPT !.utility = ThreadUtility(dict[k]) ]
        ELSE dict[k] ]

\* The order of a sort without reverse=True.
KeepsBeforeAscending(a, b) == a.lastMessageTime <= b.lastMessageTime

\* Whether thread a stays before thread b in the sorted list when a was
\* before b in the unsorted one: key lastMessageTime, reverse=True, stable.
KeepsBefore(a, b) == a.lastMessageTime >= b.lastMessageTime

\* Insert x into a sorted list, after every element that stays before it.
RECURSIVE InsertSorted(_, _)
InsertSorted(sorted, x) ==
    IF sorted = <<>> THEN <<x>>
    ELSE IF KeepsBefore(Head(sorted), x)
         THEN <<Head(sorted)>> \o InsertSorted(Tail(sorted), x)
         ELSE <<x>> \o sorted

\* list.sort(key=lambda x: x["lastMessageTime"], reverse=True)
RECURSIVE SortThreads(_)
SortThreads(list) ==
    IF list = <<>> THEN <<>>
    ELSE InsertSorted(SortThreads(SubSeq(list, 1, Len(list) - 1)),
                      list[Len(list)])

\* list(threads_dict.values())
DictValues(dict, order) == [ i \in DOMAIN order |-> dict[order[i]] ]

\* A count that leaves out the comparison with the business of the summary.
CountAllPayments(payments, proposals, business_id) == Len(payments)

\* payments_received of one business: the payments of all customers whose
\* proposal was sent by that business.
RECURSIVE CountPaymentsFor(_, _, _)
CountPaymentsFor(payments, proposals, business_id) ==
    IF payments = <<>> THEN 0
    ELSE ( IF FindBusinessForProposal(proposals,
                                      Head(payments).proposal_message_id)
              = business_id
           THEN 1 ELSE 0 )
         + CountPaymentsFor(Tail(payments), proposals, business_id)

PaymentsReceived(an, business_id) ==
    SumOver([ c \in DOMAIN an.customer_payments |->
                CountPaymentsFor(an.customer_payments[c], an.proposals,
                                 business_id) ],
            DOMAIN an.customer_payments)

\* The "analytics" object of the response.
AnalyticsDicts(an) ==
    [ customer_analytics |->
          [ c \in DOMAIN an.customer_summaries |->
              [ utility |-> an.customer_summaries[c].utility,
                payments_made |-> an.customer_summaries[c].payments_made,
                proposals_received |->
                    an.customer_summaries[c].proposals_received ] ],
      business_analytics |->
          [ b \in DOMAIN an.business_summaries |->
              [ utility |-> an.business_summaries[b].utility,
                proposals_sent |-> an.business_summaries[b].proposals_sent,
                payments_received |-> PaymentsReceived(an, b) ] ],
      marketplace_summary |->
          [ total_utility |-> an.total_marketplace_customer_utility,
            total_payments |-> an.transaction_summary.payments_made,
            total_proposals |->
                an.transaction_summary.order_proposals_created ] ]

(***************************************************************************)
(* The state machine: the log grows, then one invocation of the endpoint   *)
(* runs over it.                                                           *)
(***************************************************************************)

\* The locals of an invocation that has not started.
IdleInvocation ==
    [ pc |-> "idle", schema |-> None, customers |-> <<>>, businesses |-> <<>>,
      messages |-> <<>>, threads |-> <<>>, thread_order |-> <<>>,
      threads_with_payments |-> {}, pending |-> {}, analytics |-> NoEntry,
      report |-> NoEntry ]

\* raise HTTPException(status_code=500, ...): the response of an invocation
\* in which any exception was raised.
Http500 == [ status_code |-> 500, detail |-> "Unable to load marketplace data" ]

\* The threads that call from_cache.
Threads == {"t1", "t2"}

\* A thread outside from_cache.
IdleCaller ==
    [ pc |-> "idle", config |-> NoEntry, cache_key |-> None,
      returned |-> NoId, raised |-> None, calls |-> 0 ]

\* The visualizer before any row is logged and any request is made.
InitVisualizer ==
    /\ log = <<>>
    /\ pc = "idle"
    /\ customers = <<>>
    /\ businesses = <<>>
    /\ messages = <<>>
    /\ cursor = 1
    /\ threads = <<>>
    /\ thread_order = <<>>
    /\ threads_with_payments = {}
    /\ analytics = NoEntry
    /\ report = NoEntry
    /\ agents = AgentRows
    /\ storage_up = TRUE
    /\ warnings = <<>>
    /\ other = IdleInvocation

\* No call of validate_schema_name has been made.
NoCall == [ is_none |-> TRUE, chars |-> <<>> ]

\* The orchestrator app after import: experiment_tracker = {}.
InitApi ==
    /\ experiment_tracker = <<>>
    /\ background_tasks = <<>>
    /\ request = [ kind |-> "none" ]
    /\ response = [ status_code |-> NoId ]
    /\ served = 0
    /\ clock = 0

\* The client class after import: _client_cache = {}, the lock free.
InitCache ==
    /\ client_cache = <<>>
    /\ cache_lock = None
    /\ callers = [ t \in Threads |-> IdleCaller ]
    /\ constructed = <<>>

\* list_experiments before any call.
IdleLister ==
    [ pc |-> "idle", rows |-> <<>>, idx |-> 0, interpolated |-> <<>>,
      exc |-> None, listed |-> 0, calls |-> 0,
      response |-> [ status_code |-> NoId ] ]

\* No list request made, no schema passed, no _generate call made.
InitLate ==
    /\ lister = IdleLister
    /\ connections = <<>>
    /\ passed = {}
    /\ generate = [ pc |-> "idle" ]

Init ==
    /\ InitVisualizer
    /\ name = NoCall
    /\ validated = <<>>
    /\ InitApi
    /\ InitCache
    /\ InitLate

\* An agent's SendMessage is executed and logged.
LogSendMessage ==
    /\ pc = "idle"
    /\ Len(log) < MaxRows
    /\ \E req \in SendRequests, lag \in Lags :
          log' = Append(log, SendRow(Len(log) + 1, req, lag, FALSE))
    /\ UNCHANGED << pc, customers, businesses, messages, cursor, threads,
                    thread_order, threads_with_payments, analytics, report >>
    /\ UNCHANGED env
    /\ UNCHANGED rest

\* An agent's SendMessage fails at execution and is logged as an error.
LogFailedAction ==
    /\ pc = "idle"
    /\ Len(log) < MaxRows
    /\ log' = Append(log, SendRow(Len(log) + 1,
                                  <<"cust", "biz", "payment">>, 0, TRUE))
    /\ UNCHANGED << pc, customers, businesses, messages, cursor, threads,
                    thread_order, threads_with_payments, analytics, report >>
    /\ UNCHANGED env
    /\ UNCHANGED rest

\* An agent's Search is executed and logged.
LogSearch ==
    /\ pc = "idle"
    /\ Len(log) < MaxRows
    /\ \E req \in SearchRequests :
          log' = Append(log, SearchRow(Len(log) + 1, req))
    /\ UNCHANGED << pc, customers, businesses, messages, cursor, threads,
                    thread_order, threads_with_payments, analytics, report >>
    /\ UNCHANGED env
    /\ UNCHANGED rest

\* An agent's FetchMessages is executed and logged.
LogOtherAction ==
    /\ pc = "idle"
    /\ Len(log) < MaxRows
    /\ log' = Append(log, OtherRow(Len(log) + 1, "biz"))
    /\ UNCHANGED << pc, customers, businesses, messages, cursor, threads,
                    thread_order, threads_with_payments, analytics, report >>
    /\ UNCHANGED env
    /\ UNCHANGED rest

\* customers = await _load_customers(db)
DoLoadCustomers ==
    /\ pc = "idle"
    /\ storage_up
    /\ ~AgentRowRaises(agents)
    /\ customers' = LoadCustomers(agents)
    /\ pc' = "businesses"
    /\ UNCHANGED << log, businesses, messages, cursor, threads, thread_order,
                    threads_with_payments, analytics, report >>
    /\ UNCHANGED env
    /\ UNCHANGED rest

\* businesses = await _load_businesses(db)
DoLoadBusinesses ==
    /\ pc = "businesses"
    /\ storage_up
    /\ ~AgentRowRaises(agents)
    /\ businesses' = LoadBusinesses(agents)
    /\ pc' = "messages"
    /\ UNCHANGED << log, customers, messages, cursor, threads, thread_order,
                    threads_with_payments, analytics, report >>
    /\ UNCHANGED env
    /\ UNCHANGED rest

\* messages = await _load_messages(db); _create_message_threads starts.
DoLoadMessages ==
    /\ pc = "messages"
    /\ storage_up
    /\ messages' = LoadMessages(log)
    /\ warnings' = warnings \o LoadWarnings(log)
    /\ cursor' = 1
    /\ pc' = "threads"
    /\ UNCHANGED << log, customers, businesses, threads, thread_order,
                    threads_with_payments, analytics, report >>
    /\ UNCHANGED << agents, storage_up, other >>
    /\ UNCHANGED rest

\* One iteration of the loop of _create_message_threads.
FoldMessage ==
    /\ pc = "threads"
    /\ cursor <= Len(messages)
    /\ LET st == ProcessMessage([ threads |-> threads, order |-> thread_order,
                                  paid |-> threads_with_payments ],
                                messages[cursor],
                                ById(customers), ById(businesses))
       IN  /\ threads' = st.threads
           /\ thread_order' = st.order
           /\ threads_with_payments' = st.paid
    /\ messages' = [ messages EXCEPT
                       ![cursor] = MessageAfter(@, ById(customers),
                                                ById(businesses)) ]
    /\ cursor' = cursor + 1
    /\ UNCHANGED << log, pc, customers, businesses, analytics, report >>
    /\ UNCHANGED env
    /\ UNCHANGED rest

\* _create_message_threads returns; the analytics are computed.
DoAnalyze ==
    /\ pc = "threads"
    /\ cursor > Len(messages)
    /\ storage_up
    /\ analytics' = Analyze(log)
    /\ pc' = "utility"
    /\ UNCHANGED << log, customers, businesses, messages, cursor, threads,
                    thread_order, threads_with_payments, report >>
    /\ UNCHANGED env
    /\ UNCHANGED rest

\* The utility of every thread with a payment is computed.
DoAssignUtilities ==
    /\ pc = "utility"
    /\ threads' = AssignUtilities(threads, threads_with_payments)
    /\ pc' = "respond"
    /\ UNCHANGED << log, customers, businesses, messages, cursor, thread_order,
                    threads_with_payments, analytics, report >>
    /\ UNCHANGED env
    /\ UNCHANGED rest

\* The threads are sorted, the analytics dicts built, the response returned.
Respond ==
    /\ pc = "respond"
    /\ report' = [ messages |-> messages,
                   messageThreads |->
                       SortThreads(DictValues(threads, thread_order)),
                   analytics |-> AnalyticsDicts(analytics) ]
    /\ pc' = "done"
    /\ UNCHANGED << log, customers, businesses, messages, cursor, threads,
                    thread_order, threads_with_payments, analytics >>
    /\ UNCHANGED env
    /\ UNCHANGED rest

(***************************************************************************)
(* Wider inputs and storage faults                                         *)
(***************************************************************************)

\* An action row is logged whose parameters do not validate as an action.
LogUndecodable ==
    /\ pc = "idle"
    /\ Len(log) < MaxShortRows
    /\ \E agent \in {"cust", "biz"} :
          log' = Append(log, UndecodableRow(Len(log) + 1, agent))
    /\ UNCHANGED << pc, customers, businesses, messages, cursor, threads,
                    thread_order, threads_with_payments, analytics, report >>
    /\ UNCHANGED env
    /\ UNCHANGED rest

\* A SendMessage between two agents that are no customer-business pair.
LogDroppedMessage ==
    /\ pc = "idle"
    /\ Len(log) < MaxShortRows
    /\ \E req \in DroppedRequests :
          log' = Append(log, SendRow(Len(log) + 1, req, 0, FALSE))
    /\ UNCHANGED << pc, customers, businesses, messages, cursor, threads,
                    thread_order, threads_with_payments, analytics, report >>
    /\ UNCHANGED env
    /\ UNCHANGED rest

\* A Search whose result lists the same business more than once.
LogDuplicateSearch ==
    /\ pc = "idle"
    /\ Len(log) < MaxShortRows
    /\ \E req \in DuplicateSearchRequests :
          log' = Append(log, SearchRow(Len(log) + 1, req))
    /\ UNCHANGED << pc, customers, businesses, messages, cursor, threads,
                    thread_order, threads_with_payments, analytics, report >>
    /\ UNCHANGED env
    /\ UNCHANGED rest

\* An agent row is stored whose data is no customer or business profile.
RegisterMalformedAgent ==
    /\ pc = "idle"
    /\ ~AgentRowRaises(agents)
    /\ agents' = Append(agents, MalformedAgentRow)
    /\ UNCHANGED << log, pc, customers, businesses, messages, cursor, threads,
                    thread_order, threads_with_payments, analytics, report >>
    /\ UNCHANGED << storage_up, warnings, other >>
    /\ UNCHANGED rest

\* The database stops answering.
StorageGoesDown ==
    /\ storage_up
    /\ pc \notin {"done", "failed"}
    /\ storage_up' = FALSE
    /\ UNCHANGED << log, pc, customers, businesses, messages, cursor, threads,
                    thread_order, threads_with_payments, analytics, report >>
    /\ UNCHANGED << agents, warnings, other >>
    /\ UNCHANGED rest

\* The invocation is at a statement that reads storage: the connect and
\* db.agents.get_all() of _load_customers, db.agents.get_all() of
\* _load_businesses, db.actions.get_all() of _load_messages, or
\* analytics.load_data().
AtFetch ==
    \/ pc \in {"idle", "businesses", "messages"}
    \/ pc = "threads" /\ cursor > Len(messages)

\* A read of storage raises and the handler answers with what it has.
FetchSwallowed ==
    /\ AtFetch
    /\ ~storage_up
    /\ pc' = "done"
    /\ report' = [ messages |-> messages, messageThreads |-> <<>>,
                   analytics |-> NoEntry ]
    /\ UNCHANGED << log, customers, businesses, messages, cursor, threads,
                    thread_order, threads_with_payments, analytics >>
    /\ UNCHANGED env
    /\ UNCHANGED rest

\* A read of storage raises; `except Exception` turns it into the 500.
FetchFails ==
    /\ AtFetch
    /\ ~storage_up
    /\ pc' = "failed"
    /\ report' = Http500
    /\ UNCHANGED << log, customers, businesses, messages, cursor, threads,
                    thread_order, threads_with_payments, analytics >>
    /\ UNCHANGED env
    /\ UNCHANGED rest

\* validate_python raises on an agent row in _load_customers or
\* _load_businesses; `except Exception` turns it into the 500.
AgentRowRejected ==
    /\ pc \in {"idle", "businesses"}
    /\ storage_up
    /\ AgentRowRaises(agents)
    /\ pc' = "failed"
    /\ report' = Http500
    /\ UNCHANGED << log, customers, businesses, messages, cursor, threads,
                    thread_order, threads_with_payments, analytics >>
    /\ UNCHANGED env
    /\ UNCHANGED rest

(***************************************************************************)
(* Appends while the invocation runs                                       *)
(***************************************************************************)

\* An agent's SendMessage is executed and logged while the invocation is
\* between two of its awaits.
LogDuringInvocation ==
    /\ pc \in {"businesses", "messages", "threads"}
    /\ Len(log) < MaxShortRows
    /\ \E req \in SendRequests :
          log' = Append(log, SendRow(Len(log) + 1, req, 0, FALSE))
    /\ UNCHANGED << pc, customers, businesses, messages, cursor, threads,
                    thread_order, threads_with_payments, analytics, report >>
    /\ UNCHANGED env
    /\ UNCHANGED rest

(***************************************************************************)
(* A second invocation of the endpoint, one action per await segment       *)
(***************************************************************************)

\* async with connect_to_postgresql_database(schema=schema, ...) as db;
\* customers = await _load_customers(db)
OtherLoadCustomers ==
    /\ pc # "idle"
    /\ other.pc = "idle"
    /\ storage_up
    /\ \E schema \in Schemas :
          other' = [ other EXCEPT !.pc = "businesses",
                                  !.schema = schema,
                                  !.customers = LoadCustomers(agents) ]
    /\ UNCHANGED << log, pc, customers, businesses, messages, cursor, threads,
                    thread_order, threads_with_payments, analytics, report >>
    /\ UNCHANGED << agents, storage_up, warnings >>
    /\ UNCHANGED rest

\* businesses = await _load_businesses(db)
OtherLoadBusinesses ==
    /\ other.pc = "businesses"
    /\ storage_up
    /\ other' = [ other EXCEPT !.pc = "messages",
                               !.businesses = LoadBusinesses(agents) ]
    /\ UNCHANGED << log, pc, customers, businesses, messages, cursor, threads,
                    thread_order, threads_with_payments, analytics, report >>
    /\ UNCHANGED << agents, storage_up, warnings >>
    /\ UNCHANGED rest

\* messages = await _load_messages(db), then the synchronous call of
\* _create_message_threads, up to the await of analytics.load_data().
OtherLoadMessages ==
    /\ other.pc = "messages"
    /\ storage_up
    /\ LET rows == RowsOf(other.schema, log)
           list == LoadMessages(rows)
           st   == FoldAll(StartOfFold([ threads |-> threads,
                                         order |-> thread_order,
                                         paid |-> threads_with_payments ]),
                           list, ById(other.customers),
                           ById(other.businesses))
       IN  /\ other' = [ other EXCEPT !.pc = "analytics",
                                      !.messages = list,
                                      !.threads = st.threads,
                                      !.thread_order = st.order,
                                      !.threads_with_payments = st.paid ]
           /\ warnings' = warnings \o LoadWarnings(rows)
    /\ UNCHANGED << log, pc, customers, businesses, messages, cursor, threads,
                    thread_order, threads_with_payments, analytics, report >>
    /\ UNCHANGED << agents, storage_up >>
    /\ UNCHANGED rest

\* analytics = MarketplaceAnalytics(db); load_data; analyze_actions.
OtherAnalyze ==
    /\ other.pc = "analytics"
    /\ storage_up
    /\ other' = [ other EXCEPT !.pc = "utility",
                               !.analytics = Analyze(RowsOf(other.schema, log)),
                               !.pending = other.threads_with_payments ]
    /\ UNCHANGED << log, pc, customers, businesses, messages, cursor, threads,
                    thread_order, threads_with_payments, analytics, report >>
    /\ UNCHANGED << agents, storage_up, warnings >>
    /\ UNCHANGED rest

\* One iteration of `for thread_key in threads_with_payments`, in the
\* order the set yields its elements.
OtherAssignUtility ==
    /\ other.pc = "utility"
    /\ \E k \in other.pending :
          other' = [ other EXCEPT
                       !.threads[k].utility = ThreadUtility(other.threads[k]),
                       !.pending = @ \ {k} ]
    /\ UNCHANGED << log, pc, customers, businesses, messages, cursor, threads,
                    thread_order, threads_with_payments, analytics, report >>
    /\ UNCHANGED << agents, storage_up, warnings >>
    /\ UNCHANGED rest

\* The threads are sorted, the analytics dicts built, the response returned.
OtherRespond ==
    /\ other.pc = "utility"
    /\ other.pending = {}
    /\ other' = [ other EXCEPT
                    !.pc = "done",
                    !.report =
                        [ messages |-> other.messages,
                          messageThreads |->
                              SortThreads(DictValues(other.threads,
                                                     other.thread_order)),
                          analytics |-> AnalyticsDicts(other.analytics) ] ]
    /\ UNCHANGED << log, pc, customers, businesses, messages, cursor, threads,
                    thread_order, threads_with_payments, analytics, report >>
    /\ UNCHANGED << agents, storage_up, warnings >>
    /\ UNCHANGED rest

Next ==
    \/ LogSendMessage
    \/ LogFailedAction
    \/ LogSearch
    \/ LogOtherAction
    \/ DoLoadCustomers
    \/ DoLoadBusinesses
    \/ DoLoadMessages
    \/ FoldMessage
    \/ DoAnalyze
    \/ DoAssignUtilities
    \/ Respond

Spec == Init /\ [][Next]_vars

\* The steps of one invocation.
Invocation ==
    \/ DoLoadCustomers
    \/ DoLoadBusinesses
    \/ DoLoadMessages
    \/ FoldMessage
    \/ DoAnalyze
    \/ DoAssignUtilities
    \/ Respond

\* The appends of the four kinds of rows, to a log of at most MaxShortRows.
ShortLog ==
    /\ Len(log) < MaxShortRows
    /\ \/ LogSendMessage
       \/ LogFailedAction
       \/ LogSearch
       \/ LogOtherAction

\* Short logs with undecodable rows, unresolvable messages and duplicate
\* search results, agent rows that do not validate, and a database that
\* can stop answering.
NextWide ==
    \/ ShortLog
    \/ LogUndecodable
    \/ LogDroppedMessage
    \/ LogDuplicateSearch
    \/ RegisterMalformedAgent
    \/ StorageGoesDown
    \/ FetchFails
    \/ AgentRowRejected
    \/ Invocation

SpecWide == Init /\ [][NextWide]_vars

\* Short logs that keep growing while the invocation runs.
NextLive ==
    \/ ShortLog
    \/ LogDuringInvocation
    \/ Invocation

SpecLive == Init /\ [][NextLive]_vars

\* Short logs and two invocations that interleave at their awaits.
NextPair ==
    \/ ShortLog
    \/ Invocation
    \/ OtherLoadCustomers
    \/ OtherLoadBusinesses
    \/ OtherLoadMessages
    \/ OtherAnalyze
    \/ OtherAssignUtility
    \/ OtherRespond

SpecPair == Init /\ [][NextPair]_vars

(***************************************************************************)
(* Properties                                                              *)
(***************************************************************************)

\* _create_message_threads has processed every message.
FoldDone ==
    \/ pc = "threads" /\ cursor > Len(messages)
    \/ pc \in {"utility", "respond", "done"}

\* The messages stored in thread k that are payments sent by agent a.
PaymentsFrom(k, a) ==
    { i \in DOMAIN threads[k].messages :
          /\ threads[k].messages[i].type = "payment"
          /\ threads[k].messages[i].from_agent = a }

\* C1: after thread assembly a thread is in threads_with_payments if and
\* only if one of its stored messages is a payment whose from_agent is the
\* id of the thread's customer.
C1_HasPaymentIff ==
    FoldDone =>
        \A k \in DOMAIN threads :
            k \in threads_with_payments
                <=> PaymentsFrom(k, threads[k].participants.customer.id) # {}

\* The keys of the threads of a dict whose participants are customer c and
\* business b.
ThreadsOf(dict, c, b) ==
    { k \in DOMAIN dict : /\ dict[k].participants.customer.id = c
                          /\ dict[k].participants.business.id = b }

\* The messages stored under key k of a dict, none when k is no key of it.
StoredIn(dict, k) == IF k \in DOMAIN dict THEN dict[k].messages ELSE <<>>

\* The number of messages the step appends to the thread of key k.
Growth(k) == Len(StoredIn(threads', k)) - Len(StoredIn(threads, k))

\* The elements of a list.
Elements(list) == { list[i] : i \in DOMAIN list }

\* The fold is about to process a search message issued by a known customer.
AtCustomerSearch ==
    /\ pc = "threads" /\ cursor <= Len(messages)
    /\ IsSearch(messages[cursor])
    /\ messages[cursor].from_agent \in AgentIdsOf("customer")

\* C2: a search message of a known customer whose result holds k resolvable
\* business ids causes exactly k appends, one in the thread of each matched
\* business; an id that does not resolve gets no thread and no append, and
\* the other matched businesses still get theirs.
C2_SearchFanOut ==
    [][ (AtCustomerSearch /\ cursor' = cursor + 1) =>
          LET m   == messages[cursor]
              ids == m.business_ids
              hit == { i \in DOMAIN ids : ids[i] \in AgentIdsOf("business") }
          IN  /\ \A i \in hit :
                    \E k \in ThreadsOf(threads', m.from_agent, ids[i]) :
                        /\ Growth(k) = Cardinality({ j \in hit : ids[j] = ids[i] })
                        /\ threads'[k].messages[Len(threads'[k].messages)]
                               = ThreadCopy(m)
              /\ \A k \in DOMAIN threads' :
                    k \notin UNION { ThreadsOf(threads', m.from_agent, ids[i]) :
                                        i \in hit }
                        => /\ k \in DOMAIN threads
                           /\ threads'[k] = threads[k]
              /\ \A i \in DOMAIN ids \ hit :
                    \A k \in DOMAIN threads' :
                        threads'[k].participants.business.id # ids[i]
    ]_vars

\* The greatest created_at of a non-empty list of messages.
MaxCreatedAt(list) ==
    CHOOSE t \in { list[i].created_at : i \in DOMAIN list } :
        \A i \in DOMAIN list : list[i].created_at <= t

\* C3: after thread assembly every thread's lastMessageTime is the maximum
\* created_at of the messages stored in it.
C3_LastMessageTimeIsMax ==
    FoldDone =>
        \A k \in DOMAIN threads :
            threads[k].lastMessageTime = MaxCreatedAt(threads[k].messages)

\* C4: within every assembled thread the messages are in ascending
\* created_at order, equal created_at in ascending id order.
C4_MessagesChronological ==
    FoldDone =>
        \A k \in DOMAIN threads :
            \A i, j \in DOMAIN threads[k].messages :
                i < j =>
                    LET a == threads[k].messages[i]
                        b == threads[k].messages[j]
                    IN  \/ a.created_at < b.created_at
                        \/ a.created_at = b.created_at /\ a.id <= b.id

\* C5: no two threads have the same (customer id, business id) participant
\* pair, in every state of the fold and after it.
C5_PairUnique ==
    \A k1, k2 \in DOMAIN threads :
        ( /\ threads[k1].participants.customer.id
               = threads[k2].participants.customer.id
          /\ threads[k1].participants.business.id
               = threads[k2].participants.business.id )
        => k1 = k2

\* Get-or-create has found an existing thread at least once, and the
\* assembly has produced more than one thread.
C5_Witness ==
    /\ FoldDone
    /\ \E k \in DOMAIN threads : Len(threads[k].messages) >= 2
    /\ Cardinality(DOMAIN threads) >= 2

\* The fold is about to process a regular message between a known customer
\* and a known business.
AtPairMessage ==
    /\ pc = "threads" /\ cursor <= Len(messages)
    /\ ~IsSearch(messages[cursor])
    /\ \E c \in AgentIdsOf("customer"), b \in AgentIdsOf("business") :
          {messages[cursor].from_agent, messages[cursor].to_agent} = {c, b}

\* C6: processing a non-search message between customer C and business B
\* appends it to the thread of (C, B) and changes no other thread.
C6_AppendsToOwnThreadOnly ==
    [][ (AtPairMessage /\ cursor' = cursor + 1) =>
          LET m == messages[cursor]
              c == CHOOSE x \in AgentIdsOf("customer") :
                       x \in {m.from_agent, m.to_agent}
              b == CHOOSE x \in AgentIdsOf("business") :
                       x \in {m.from_agent, m.to_agent}
          IN  /\ \E k \in ThreadsOf(threads', c, b) :
                    /\ threads'[k].messages = Append(StoredIn(threads, k), m)
                    /\ \A o \in DOMAIN threads' \ {k} :
                          o \in DOMAIN threads /\ threads'[o] = threads[o]
    ]_vars

\* The analytics of the invocation have been computed.
AnalysisDone == pc \in {"utility", "respond", "done"}

\* The rows of the log that hold an executed message of a type, by index.
ExecutedRows(type) ==
    { i \in DOMAIN log : /\ ~log[i].is_error
                         /\ log[i].kind = "SendMessage"
                         /\ log[i].message_type = type }

\* The proposals that precede payment row i, sent by the business it pays to
\* the customer who pays.
ProposalsBefore(i) ==
    { j \in ExecutedRows("order_proposal") :
          /\ log[j].from_agent_id = log[i].to_agent_id
          /\ log[j].to_agent_id = log[i].from_agent_id
          /\ \/ log[j].action_created_at < log[i].action_created_at
             \/ /\ log[j].action_created_at = log[i].action_created_at
                /\ j < i }

\* Proposal row j is later than proposal row h: by created_at, ties by id.
LaterThan(j, h) ==
    \/ log[j].action_created_at > log[h].action_created_at
    \/ log[j].action_created_at = log[h].action_created_at /\ j > h

\* C7: every payment a customer issued is attributed to the nearest
\* preceding proposal the paid business addressed to that customer (by
\* created_at, ties by id), and to none when there is no such proposal.
C7_NearestPrecedingProposal ==
    AnalysisDone =>
        \A c \in DOMAIN analytics.customer_payments :
            \A n \in DOMAIN analytics.customer_payments[c] :
                LET rec == analytics.customer_payments[c][n]
                    Q   == ProposalsBefore(rec.id)
                IN  IF Q = {} THEN rec.proposal_message_id = NoId
                    ELSE /\ rec.proposal_message_id \in Q
                         /\ \A j \in Q : ~LaterThan(j, rec.proposal_message_id)

\* A payment with two qualifying proposals has been attributed.
C7_Witness ==
    /\ AnalysisDone
    /\ \E c \in DOMAIN analytics.customer_payments :
          \E n \in DOMAIN analytics.customer_payments[c] :
              LET rec == analytics.customer_payments[c][n]
              IN  /\ Cardinality(ProposalsBefore(rec.id)) >= 2
                  /\ rec.proposal_message_id # NoId

\* The payments customers issued whose attributed proposal was sent by b.
AttributedTo(b) ==
    { i \in ExecutedRows("payment") :
          /\ log[i].from_agent_id \in AgentIdsOf("customer")
          /\ ProposalsBefore(i) # {}
          /\ log[i].to_agent_id = b }

\* C8: payments_received of every business is the number of payments whose
\* attributed proposal belongs to it; total_payments counts every payment,
\* attributed or not, so the payments_received sum never exceeds it.
C8_PaymentsReceived ==
    pc = "done" =>
        LET ba == report.analytics.business_analytics
            total == report.analytics.marketplace_summary.total_payments
        IN  /\ DOMAIN ba = AgentIdsOf("business")
            /\ \A b \in DOMAIN ba :
                  ba[b].payments_received = Cardinality(AttributedTo(b))
            /\ total = Cardinality(ExecutedRows("payment"))
            /\ SumOver([ b \in DOMAIN ba |-> ba[b].payments_received ],
                       DOMAIN ba) <= total

\* A report over a log with an attributed and an unattributed payment.
C8_Witness ==
    /\ pc = "done"
    /\ \E b \in AgentIdsOf("business") :
          report.analytics.business_analytics[b].payments_received >= 1
    /\ \E i \in ExecutedRows("payment") :
          /\ log[i].from_agent_id \in AgentIdsOf("customer")
          /\ ProposalsBefore(i) = {}

\* C9: in the report every thread with a payment has the utility the
\* utility function gives for its own customer id and business id, and
\* every other thread has utility 0.
C9_ThreadUtility ==
    pc = "done" =>
        /\ Elements(report.messageThreads) = { threads[k] : k \in DOMAIN threads }
        /\ \A k \in DOMAIN threads :
              threads[k].utility =
                  IF k \in threads_with_payments
                  THEN ConversationUtility(threads[k].participants.customer.id,
                                           threads[k].participants.business.id)
                  ELSE 0

\* A report with a thread that has a payment and one that has none.
C9_Witness ==
    /\ pc = "done"
    /\ \E k \in DOMAIN threads : k \in threads_with_payments
    /\ \E k \in DOMAIN threads : k \notin threads_with_payments

\* C10: messageThreads holds every thread once, sorted by lastMessageTime
\* in descending order.
C10_ThreadsSortedDescending ==
    pc = "done" =>
        LET mt == report.messageThreads
        IN  /\ Len(mt) = Cardinality(DOMAIN threads)
            /\ \A i \in 1..(Len(mt) - 1) :
                  mt[i].lastMessageTime >= mt[i + 1].lastMessageTime

\* A report whose sort has moved a thread created later before an earlier one.
C10_Witness ==
    /\ pc = "done"
    /\ Len(report.messageThreads) >= 2
    /\ report.messageThreads # DictValues(threads, thread_order)

(***************************************************************************)
(* Properties of repeated and concurrent invocations, malformed input and  *)
(* storage faults                                                          *)
(***************************************************************************)

\* Both invocations have returned and both read the schema of the log.
BothDoneOnOneSnapshot ==
    pc = "done" /\ other.pc = "done" /\ other.schema = "exp_a"

\* C11: two runs of the reconstruction over the same agents and the same
\* actions give equal reports: the same thread keys, the same messages,
\* lastMessageTime, payment flag and utility in each thread, and equal
\* analytics.
C11_EqualReports ==
    BothDoneOnOneSnapshot =>
        /\ DOMAIN other.threads = DOMAIN threads
        /\ \A k \in DOMAIN threads :
              /\ other.threads[k].messages = threads[k].messages
              /\ other.threads[k].lastMessageTime = threads[k].lastMessageTime
              /\ other.threads[k].utility = threads[k].utility
              /\ (k \in other.threads_with_payments)
                    <=> (k \in threads_with_payments)
        /\ other.report.messages = report.messages
        /\ other.report.messageThreads = report.messageThreads
        /\ other.report.analytics = report.analytics

\* Two finished runs over a log that gives two threads with a payment.
C11_Witness ==
    /\ BothDoneOnOneSnapshot
    /\ Cardinality(threads_with_payments) >= 2
    /\ Cardinality(DOMAIN other.threads) >= 2

\* The ids of the elements of a list, in its order.
IdsOf(list) == [ i \in DOMAIN list |-> list[i].id ]

\* A row whose parameters cannot be decoded.
Undecodable(row) == ~row.is_error /\ row.kind = "Malformed"

\* A row that is executed and decodable.
Usable(row) == ~row.is_error /\ row.kind # "Malformed"

\* A usable row that holds a message or a search.
Contributing(row) == Usable(row) /\ row.kind \in {"SendMessage", "Search"}

\* _load_messages has returned in this invocation.
MessagesLoaded == pc \in {"threads", "utility", "respond", "done"}

\* C12: a row marked as an error or with undecodable parameters gives no
\* message and takes no part in threads or analytics; every other row is
\* processed, the report is produced over them, and each undecodable row is
\* recorded once, by its id.
C12_BadRowsSkipped ==
    /\ MessagesLoaded =>
          /\ IdsOf(messages) = IdsOf(SelectSeq(log, Contributing))
          /\ warnings = IdsOf(SelectSeq(log, Undecodable))
          /\ \A k \in DOMAIN threads : \A i \in DOMAIN threads[k].messages :
                \E j \in DOMAIN log : /\ Contributing(log[j])
                                      /\ log[j].id = threads[k].messages[i].id
    /\ pc = "done" =>
          /\ report.messages = messages
          /\ report.analytics
                = AnalyticsDicts(Analyze(SelectSeq(log, Usable)))
    /\ pc = "failed" => (~storage_up \/ AgentRowRaises(agents))

\* A report over a log of one undecodable row and valid rows otherwise.
C12_Witness ==
    /\ pc = "done"
    /\ Len(log) = MaxShortRows
    /\ Len(warnings) = 1
    /\ Len(report.messages) = Len(log) - 1

\* C13: an invocation fails only when storage is unavailable; malformed
\* data in an action row or in an agent row never makes it fail.
C13_OnlyStorageFails ==
    pc = "failed" => ~storage_up

\* C14: a failed storage fetch ends the invocation with one 500 response
\* that carries no messages, threads or analytics; nothing is read after
\* the failure and the failed invocation does nothing more.
C14_FetchFailureIsOneError ==
    [][ /\ (~storage_up /\ AtFetch /\ pc' # pc) =>
              /\ pc' = "failed"
              /\ report'.status_code = 500
              /\ DOMAIN report' \cap {"messages", "messageThreads", "analytics"}
                    = {}
        /\ ~storage_up =>
              << customers, businesses, messages, analytics >>'
                  = << customers, businesses, messages, analytics >>
        /\ pc = "failed" => (pc' = "failed" /\ report' = report)
      ]_vars

\* The fetch of analytics.load_data() failed after the messages were loaded
\* and threads were built.
C14_Witness ==
    /\ pc = "failed"
    /\ ~storage_up
    /\ Len(messages) > 0
    /\ DOMAIN threads # {}

\* C15: the flat message list and the analytics of a report are computed
\* from one and the same set of action rows, a prefix of the log, also when
\* rows are appended while the invocation runs.
C15_SingleSnapshot ==
    pc = "done" =>
        \E n \in 0..Len(log) :
            /\ report.messages = LoadMessages(SubSeq(log, 1, n))
            /\ report.analytics
                  = AnalyticsDicts(Analyze(SubSeq(log, 1, n)))

\* The report of an invocation that runs alone over a list of action rows.
ReportAlone(rows) ==
    LET list == LoadMessages(rows)
        st   == FoldAll([ threads |-> <<>>, order |-> <<>>, paid |-> {} ],
                        list, ById(LoadCustomers(AgentRows)),
                        ById(LoadBusinesses(AgentRows)))
    IN  [ messages |-> list,
          messageThreads |->
              SortThreads(DictValues(AssignUtilities(st.threads, st.paid),
                                     st.order)),
          analytics |-> AnalyticsDicts(Analyze(rows)) ]

\* The action rows of the schema the second invocation was called for.
SnapshotOfOther == IF other.schema = "exp_a" THEN log ELSE OtherSchemaLog

\* The locals of the first invocation.
locals == << customers, businesses, messages, cursor, threads, thread_order,
             threads_with_payments, analytics, report >>

\* C16: two invocations that interleave, on one schema or on two, do not
\* touch each other's state, and each returns the report it returns when it
\* runs alone.
C16_IndependentInvocations ==
    /\ [](pc = "done" => report = ReportAlone(log))
    /\ [](other.pc = "done" => other.report = ReportAlone(SnapshotOfOther))
    /\ [][ other' = other \/ locals' = locals ]_vars

\* Both invocations have returned, one per schema, after running interleaved.
C16_Witness ==
    /\ pc = "done"
    /\ other.pc = "done"
    /\ other.schema = "exp_b"
    /\ Len(log) = MaxShortRows
    /\ report # other.report

\* A message the thread assembly cannot place: a search whose sender is no
\* known customer, or a message whose two agents are not one known customer
\* and one known business.
Unresolved(m) ==
    IF IsSearch(m)
    THEN m.from_agent \notin AgentIdsOf("customer")
    ELSE ~\E c \in AgentIdsOf("customer"), b \in AgentIdsOf("business") :
              {m.from_agent, m.to_agent} = {c, b}

\* C17: the step over an unresolved message leaves the thread map and the
\* set of threads with a payment as they were and does not fail.
C17_UnresolvedDropped ==
    [][ ( /\ pc = "threads" /\ cursor <= Len(messages)
          /\ Unresolved(messages[cursor])
          /\ cursor' = cursor + 1 ) =>
            /\ threads' = threads
            /\ thread_order' = thread_order
            /\ threads_with_payments' = threads_with_payments
            /\ pc' = "threads"
      ]_vars

\* The fold has passed an unresolved message while a thread existed.
C17_Witness ==
    /\ FoldDone
    /\ Len(messages) = MaxShortRows
    /\ Unresolved(messages[Len(messages)])
    /\ ~IsSearch(messages[Len(messages)])
    /\ DOMAIN threads # {}

\* C18: in every state each thread has one participant out of the loaded
\* customers and one out of the loaded businesses, of these roles, and its
\* key is the key of their two ids.
C18_ParticipantsResolved ==
    \A k \in DOMAIN threads :
        LET p == threads[k].participants
        IN  /\ DOMAIN p = {"customer", "business"}
            /\ p.customer \in Elements(customers)
            /\ p.business \in Elements(businesses)
            /\ p.customer.id \in AgentIdsOf("customer")
            /\ p.business.id \in AgentIdsOf("business")
            /\ k = ThreadKey(p.customer.id, p.business.id)

\* The fold has built two threads, one of them under a key on which two
\* pairs collide and holding a message of the pair that did not create it.
C18_Witness ==
    /\ FoldDone
    /\ Cardinality(DOMAIN threads) >= 2
    /\ \E k \in DOMAIN threads : \E i \in DOMAIN threads[k].messages :
          /\ threads[k].messages[i].type # "search"
          /\ threads[k].messages[i].from_agent
                \notin { threads[k].participants.customer.id,
                         threads[k].participants.business.id }

\* C19: the messages of every thread have pairwise distinct ids.
C19_DistinctIdsPerThread ==
    \A k \in DOMAIN threads :
        \A i, j \in DOMAIN threads[k].messages :
            i # j => threads[k].messages[i].id # threads[k].messages[j].id

\* The copies of search messages stored in the threads.
StoredSearches ==
    { m \in UNION { Elements(threads[k].messages) : k \in DOMAIN threads } :
          m.type = "search" }

\* C20, as stated: the stored copy of a search message carries the result's
\* business-id list nowhere.
C20_ListStripped ==
    \A m \in StoredSearches :
        /\ "business_ids" \notin DOMAIN m
        /\ "business_ids" \notin DOMAIN m.content

\* C20, amended: the stored copy of a search message has no business_ids
\* field of its own, the message in the flat list keeps the field, every
\* thread that holds a copy has the key of the searcher and a business of
\* that list, and the copy's content still holds the list.
C20_FanOutFieldPopped ==
    \A k \in DOMAIN threads : \A i \in DOMAIN threads[k].messages :
        LET m == threads[k].messages[i]
        IN  m.type = "search" =>
              /\ "business_ids" \notin DOMAIN m
              /\ \E j \in DOMAIN messages :
                    /\ messages[j].id = m.id
                    /\ "business_ids" \in DOMAIN messages[j]
                    /\ \E b \in Elements(messages[j].business_ids) :
                          k = ThreadKey(m.from_agent, b)
                    /\ m.content.business_ids = messages[j].business_ids

\* A search of two businesses has been stored in the thread of each.
C20_Witness ==
    /\ FoldDone
    /\ \E m \in StoredSearches :
          Cardinality({ k \in DOMAIN threads :
                          m \in Elements(threads[k].messages) }) >= 2

(***************************************************************************)
(* Frame of the thread assembly                                            *)
(***************************************************************************)

\* C21: after _create_message_threads has returned, the customers list, the
\* businesses list and every message of the messages list are what the
\* loads returned; a search message still has its business_ids field.
C21_InputsUntouched ==
    FoldDone =>
        /\ customers = LoadCustomers(agents)
        /\ businesses = LoadBusinesses(agents)
        /\ messages = LoadMessages(log)
        /\ \A i \in DOMAIN messages :
              messages[i].type = "search" =>
                  /\ "business_ids" \in DOMAIN messages[i]
                  /\ messages[i].business_ids = log[messages[i].id].businesses

\* The assembly has returned after it stored copies of a search message and
\* a regular message.
C21_Witness ==
    /\ FoldDone
    /\ StoredSearches # {}
    /\ \E k \in DOMAIN threads : \E i \in DOMAIN threads[k].messages :
          threads[k].messages[i].type = "payment"

(***************************************************************************)
(* api/utils.py: validate_schema_name                                      *)
(***************************************************************************)

\* The characters of the arguments: a letter of each case, the underscore,
\* a digit, a hyphen and the newline.
Alphabet == {"a", "Z", "_", "7", "-", "\n"}

\* [a-zA-Z_]
FirstClass == {"a", "Z", "_"}

\* [a-zA-Z0-9_]
RestClass == {"a", "Z", "_", "7"}

\* The arguments of a call: None, or a string given by its characters.
NameArgs ==
    { NoCall } \cup
    { [ is_none |-> FALSE, chars |-> c ] :
          c \in UNION { [1..n -> Alphabet] : n \in 0..MaxNameLen } }

\* Where `$` matches without re.MULTILINE: at the end of the string, and
\* before a newline that is the last character of the string.
DollarAt(chars, pos) ==
    \/ pos = Len(chars) + 1
    \/ pos = Len(chars) /\ chars[pos] = "\n"

\* re.match(r"^[a-zA-Z_][a-zA-Z0-9_]*$", name): the first character, then
\* as many characters of the class as lead to a place where `$` matches.
ReMatch(chars) ==
    /\ Len(chars) >= 1
    /\ chars[1] \in FirstClass
    /\ \E n \in 1..Len(chars) :
          /\ \A i \in 2..n : chars[i] \in RestClass
          /\ DollarAt(chars, n + 1)

validate_schema_name(arg) ==
    IF arg.is_none \/ arg.chars = <<>> THEN FALSE
    ELSE ReMatch(arg.chars)

\* A call is about to be made with any of the arguments.
InitNames ==
    /\ InitVisualizer
    /\ name \in NameArgs
    /\ validated = <<>>
    /\ InitApi
    /\ InitCache
    /\ InitLate

\* validate_schema_name(name) returns.
CallValidate ==
    /\ validated = <<>>
    /\ validated' = << validate_schema_name(name) >>
    /\ UNCHANGED << name, visualizer, late, api_vars, cache_vars >>

NextNames == CallValidate

SpecNames == InitNames /\ [][NextNames]_vars

\* C22: validate_schema_name returns True exactly for the non-empty strings
\* of ASCII letters, digits and underscores that do not start with a digit,
\* and False for None, the empty string and every other string.
C22_ValidIffWellFormed ==
    validated # <<>> =>
        ( validated[1] <=>
            /\ ~name.is_none
            /\ Len(name.chars) >= 1
            /\ \A i \in DOMAIN name.chars : name.chars[i] \in {"a", "Z", "_", "7"}
            /\ name.chars[1] # "7" )

(***************************************************************************)
(* api/main.py: the orchestrator app                                       *)
(***************************************************************************)

\* The routes registered on app with @app.get and @app.post.
Routes ==
    { [ method |-> "GET",  path |-> <<"api", "datasets">>,
        handler |-> "list_datasets" ],
      [ method |-> "GET",  path |-> <<"api", "settings">>,
        handler |-> "get_settings" ],
      [ method |-> "POST", path |-> <<"api", "experiments">>,
        handler |-> "create_experiment" ],
      [ method |-> "GET",  path |-> <<"api", "experiments", "{name}", "status">>,
        handler |-> "get_experiment_status" ],
      [ method |-> "GET",  path |-> <<"api", "experiments">>,
        handler |-> "list_experiments" ],
      [ method |-> "GET",  path |-> <<"health">>,
        handler |-> "health_check" ] }

\* Whether a route serves a request: the method, and segment by segment
\* the path, where {name} stands for any one segment.
Matches(route, method, path) ==
    /\ route.method = method
    /\ Len(route.path) = Len(path)
    /\ \A i \in DOMAIN path :
          route.path[i] = "{name}" \/ route.path[i] = path[i]

\* The handler the app calls for a request, "none" when no route serves it.
RouteOf(method, path) ==
    IF \E r \in Routes : Matches(r, method, path)
    THEN (CHOOSE r \in Routes : Matches(r, method, path)).handler
    ELSE "none"

\* The datasets a request can name: a complete one, a directory that does
\* not exist, and one without customers/.
Datasets == {"mexican", "absent", "partial"}

\* dataset_path.exists()
DatasetExists(dataset) == dataset # "absent"

\* businesses_dir.exists() and customers_dir.exists()
HasBothDirs(dataset) == dataset = "mexican"

\* The experiment names a request can give; None asks for a generated one.
GivenNames == {None, "exp_a", "exp_b"}

\* int(datetime.now().timestamp() * 1000) at the time of the request.
Millis == {"1700000000000", "1700000000001"}

\* The bodies of POST /api/experiments.
CreateRequests ==
    [ dataset : Datasets, experiment_name : GivenNames, override : BOOLEAN ]

\* The names asked for at the status endpoint.
StatusNames == {"exp_a", "exp_b", "ghost"}

\* The names asked for at /api/experiments/{name}/logs.
LogNames == {"exp_a", "test-experiment", "test;DROP"}

\* The characters of a name asked for at the logs path, as characters of
\* Alphabet: a letter for a letter, the hyphen for any other character.
LogNameChars(n) ==
    IF n = "exp_a" THEN <<"a", "a", "a", "_", "a">>
    ELSE IF n = "test-experiment" THEN <<"a", "-", "a">>
    ELSE <<"a", "-", "Z">>

\* The experiment name of a request: the given one, or
\* f"marketplace_{num_customers}_{num_businesses}_{timestamp}".
ExperimentName(config, millis) ==
    IF config.experiment_name # None THEN config.experiment_name
    ELSE "marketplace_1_1_" \o millis

\* A check of the name that is never true.
NeverTaken(tracker, experiment_name, override) == FALSE

\* experiment_name in experiment_tracker and not experiment_config.override
NameTaken(tracker, experiment_name, override) ==
    experiment_name \in DOMAIN tracker /\ ~override

\* ExperimentStatus(name=..., status="pending", started_at=None, ...)
PendingStatus(experiment_name) ==
    [ name |-> experiment_name, status |-> "pending", started_at |-> NoId,
      completed_at |-> NoId, error |-> None ]

\* raise HTTPException(status_code=..., detail=...)
HttpError(status_code, detail) ==
    [ status_code |-> status_code, detail |-> detail ]

\* The response of create_experiment to a request.
CreateResponse(tracker, config, millis) ==
    IF ~DatasetExists(config.dataset)
    THEN HttpError(400, "Dataset not found")
    ELSE IF ~HasBothDirs(config.dataset)
    THEN HttpError(400, "Invalid dataset: missing businesses/ or customers/ directories")
    ELSE IF NameTaken(tracker, ExperimentName(config, millis), config.override)
    THEN HttpError(400, "Experiment already exists. Use override=true to replace it.")
    ELSE [ status_code |-> 202,
           body |-> PendingStatus(ExperimentName(config, millis)) ]

\* d[k] = v
DictSet(d, k, v) ==
    [ x \in DOMAIN d \cup {k} |-> IF x = k THEN v ELSE d[x] ]

\* POST /api/experiments
CreateExperiment ==
    /\ served < MaxRequests
    /\ RouteOf("POST", <<"api", "experiments">>) = "create_experiment"
    /\ \E config \in CreateRequests, millis \in Millis :
          LET answer == CreateResponse(experiment_tracker, config, millis)
              experiment_name == ExperimentName(config, millis)
          IN  /\ request' = [ kind |-> "create", config |-> config,
                              experiment_name |-> experiment_name ]
              /\ response' = answer
              /\ IF answer.status_code = 202
                 THEN /\ Len(background_tasks) < MaxTasks
                      /\ experiment_tracker' =
                            DictSet(experiment_tracker, experiment_name,
                                    answer.body)
                      /\ background_tasks' =
                            Append(background_tasks,
                                   [ experiment_name |-> experiment_name,
                                     pc |-> "scheduled" ])
                 ELSE UNCHANGED << experiment_tracker, background_tasks >>
    /\ served' = served + 1
    /\ UNCHANGED << clock, visualizer, late, names_vars, cache_vars >>

\* GET /api/experiments/{name}/status
GetExperimentStatus ==
    /\ served < MaxRequests
    /\ \E n \in StatusNames :
          /\ RouteOf("GET", <<"api", "experiments", n, "status">>)
                = "get_experiment_status"
          /\ request' = [ kind |-> "status", name |-> n ]
          /\ response' =
                IF n \notin DOMAIN experiment_tracker
                THEN HttpError(404, "Experiment not found in tracker")
                ELSE [ status_code |-> 200, body |-> experiment_tracker[n] ]
    /\ served' = served + 1
    /\ UNCHANGED << experiment_tracker, background_tasks, clock,
                    visualizer, late, names_vars, cache_vars >>

\* GET /api/experiments/{name}/logs: no route of the app serves the path,
\* and the router answers.
GetExperimentLogs ==
    /\ served < MaxRequests
    /\ \E n \in LogNames :
          /\ RouteOf("GET", <<"api", "experiments", n, "logs">>) = "none"
          /\ request' = [ kind |-> "logs", name |-> n ]
          /\ response' = HttpError(404, "Not Found")
    /\ served' = served + 1
    /\ UNCHANGED << experiment_tracker, background_tasks, clock,
                    visualizer, late, names_vars, cache_vars >>

\* The tracker after the statements of a background run that write to
\* experiment_tracker[experiment_name].
Written(tracker, experiment_name, status, started_at, completed_at, error) ==
    [ tracker EXCEPT ![experiment_name] =
        [ @ EXCEPT !.status = status,
                   !.started_at = IF started_at = NoId THEN @ ELSE started_at,
                   !.completed_at = IF completed_at = NoId THEN @
                                    ELSE completed_at,
                   !.error = IF error = None THEN @ ELSE error ] ]

\* run_experiment_background up to its await: status running, started_at.
TaskStart ==
    \E i \in DOMAIN background_tasks :
        /\ background_tasks[i].pc = "scheduled"
        /\ experiment_tracker' =
              Written(experiment_tracker, background_tasks[i].experiment_name,
                      "running", clock + 1, NoId, None)
        /\ clock' = clock + 1
        /\ background_tasks' = [ background_tasks EXCEPT ![i].pc = "running" ]
        /\ UNCHANGED << request, response, served,
                        visualizer, late, names_vars, cache_vars >>

\* run_marketplace_experiment returns: status completed, completed_at.
TaskComplete ==
    \E i \in DOMAIN background_tasks :
        /\ background_tasks[i].pc = "running"
        /\ experiment_tracker' =
              Written(experiment_tracker, background_tasks[i].experiment_name,
                      "completed", NoId, clock + 1, None)
        /\ clock' = clock + 1
        /\ background_tasks' = [ background_tasks EXCEPT ![i].pc = "returned" ]
        /\ UNCHANGED << request, response, served,
                        visualizer, late, names_vars, cache_vars >>

\* The exceptions run_marketplace_experiment raises in the model: instances
\* of subclasses of Exception.
Raisable ==
    { [ type |-> "RuntimeError", args |-> <<"experiment error">> ] }

\* str(e) of an exception with one argument.
Str(e) == e.args[1]

\* A handler that catches nothing.
Unhandled(e) == FALSE

\* except Exception as e: the clause catches every exception that is not a
\* bare BaseException (CancelledError, KeyboardInterrupt, SystemExit).
Handled(e) == e.type \notin {"CancelledError", "KeyboardInterrupt", "SystemExit"}

\* run_marketplace_experiment raises: status failed, completed_at, error.
TaskFail ==
    \E i \in DOMAIN background_tasks, e \in Raisable :
        /\ background_tasks[i].pc = "running"
        /\ IF Handled(e)
           THEN /\ experiment_tracker' =
                      Written(experiment_tracker,
                              background_tasks[i].experiment_name,
                              "failed", NoId, clock + 1, Str(e))
                /\ clock' = clock + 1
                /\ background_tasks' =
                      [ background_tasks EXCEPT ![i].pc = "returned" ]
           ELSE /\ background_tasks' =
                      [ background_tasks EXCEPT ![i].pc = "escaped" ]
                /\ UNCHANGED << experiment_tracker, clock >>
        /\ UNCHANGED << request, response, served,
                        visualizer, late, names_vars, cache_vars >>

NextApi ==
    \/ CreateExperiment
    \/ GetExperimentStatus
    \/ GetExperimentLogs
    \/ TaskStart
    \/ TaskComplete
    \/ TaskFail

SpecApi == Init /\ [][NextApi]_vars

\* SpecApi where every scheduled background task is run and every call of
\* run_marketplace_experiment returns or raises.
SpecApiLive ==
    /\ SpecApi
    /\ WF_vars(TaskStart)
    /\ WF_vars(TaskComplete \/ TaskFail)

\* The step answers a POST /api/experiments.
CreateStep == served' = served + 1 /\ request'.kind = "create"

\* The step answers a POST /api/experiments by accepting an experiment of
\* name n.
Created(n) ==
    /\ CreateStep
    /\ response'.status_code = 202
    /\ response'.body.name = n

\* C23: a request of /api/experiments/{name}/logs whose name fails the
\* validation of schema names is answered with status 400 and the detail
\* 'Invalid experiment name'.
C23_InvalidLogNameIs400 ==
    ( request.kind = "logs"
      /\ ~validate_schema_name([ is_none |-> FALSE,
                                 chars |-> LogNameChars(request.name) ]) )
        => /\ response.status_code = 400
           /\ response.detail = "Invalid experiment name"

\* C24: the status of an experiment name changes only from pending to
\* running and from running to completed or to failed, unless the step
\* creates a new experiment under that name.
C24_StatusOrder ==
    [][ \A n \in DOMAIN experiment_tracker :
          \/ experiment_tracker'[n].status = experiment_tracker[n].status
          \/ << experiment_tracker[n].status, experiment_tracker'[n].status >>
                \in { <<"pending", "running">>, <<"running", "completed">>,
                      <<"running", "failed">> }
          \/ Created(n)
      ]_vars

\* C25: in every entry of the tracker started_at is set exactly when the
\* status is running, completed or failed, completed_at exactly when it is
\* completed or failed, and error exactly when it is failed.
C25_FieldsFollowStatus ==
    \A n \in DOMAIN experiment_tracker :
        LET e == experiment_tracker[n]
        IN  /\ (e.started_at # NoId)
                  <=> (e.status \in {"running", "completed", "failed"})
            /\ (e.completed_at # NoId)
                  <=> (e.status \in {"completed", "failed"})
            /\ (e.error # None) <=> (e.status = "failed")

\* C26: a create request that names an experiment already in the tracker
\* with override=false is answered 400, changes no tracker entry and
\* schedules nothing; an accepted one stores a pending entry with null
\* started_at, completed_at and error under its name, leaves the other
\* entries alone and schedules exactly one run, of that name.
C26_CreateRejectsOrSchedules ==
    [][ CreateStep =>
          LET config == request'.config
              n == request'.experiment_name
          IN  /\ ( config.experiment_name \in DOMAIN experiment_tracker
                   /\ ~config.override ) =>
                     /\ response'.status_code = 400
                     /\ experiment_tracker' = experiment_tracker
                     /\ background_tasks' = background_tasks
              /\ response'.status_code = 202 =>
                     /\ experiment_tracker'[n]
                           = [ name |-> n, status |-> "pending",
                               started_at |-> NoId, completed_at |-> NoId,
                               error |-> None ]
                     /\ DOMAIN experiment_tracker'
                           = DOMAIN experiment_tracker \cup {n}
                     /\ \A o \in DOMAIN experiment_tracker \ {n} :
                           experiment_tracker'[o] = experiment_tracker[o]
                     /\ background_tasks'
                           = Append(background_tasks,
                                    [ experiment_name |-> n,
                                      pc |-> "scheduled" ])
              /\ response'.status_code \in {202, 400}
      ]_vars

\* A second create of a name with override=false was just refused while
\* the run of the first is under way.
C26_Witness ==
    /\ request.kind = "create"
    /\ request.config.dataset = "mexican"
    /\ ~request.config.override
    /\ response.status_code = 400
    /\ Len(background_tasks) = 1
    /\ request.experiment_name \in DOMAIN experiment_tracker
    /\ experiment_tracker[request.experiment_name].status = "running"

\* C27: create_experiment answers 404 when the dataset directory is not
\* found, 400 when the dataset lacks businesses/ or customers/ or when the
\* name exists already, and changes no tracker entry in these cases.
C27_CreateErrorCodes ==
    [][ CreateStep =>
          LET config == request'.config
          IN  /\ ~DatasetExists(config.dataset) =>
                     /\ response'.status_code = 404
                     /\ experiment_tracker' = experiment_tracker
              /\ ( DatasetExists(config.dataset)
                   /\ ~HasBothDirs(config.dataset) ) =>
                     /\ response'.status_code = 400
                     /\ experiment_tracker' = experiment_tracker
              /\ ( HasBothDirs(config.dataset)
                   /\ request'.experiment_name \in DOMAIN experiment_tracker
                   /\ ~config.override ) =>
                     /\ response'.status_code = 400
                     /\ experiment_tracker' = experiment_tracker
      ]_vars

(***************************************************************************)
(* marketplace/llm/clients/azure_openai.py: AzureOpenAIClient              *)
(***************************************************************************)

\* AzureOpenAIConfig(azure_endpoint=..., use_entra_id=..., api_key=...), the
\* other fields at their defaults.
AzureOpenAIConfig(azure_endpoint, use_entra_id, api_key) ==
    [ provider |-> "azure_openai",
      azure_endpoint |-> azure_endpoint,
      api_version |-> "2025-04-01-preview",
      use_entra_id |-> use_entra_id,
      api_key |-> api_key ]

\* The AzureOpenAIConfig objects the callers pass: Entra ID without a key, a
\* key without Entra ID at two endpoints, and neither.
Configs ==
    { AzureOpenAIConfig("https://test.openai.azure.com/", TRUE, None),
      AzureOpenAIConfig("https://test.openai.azure.com/", FALSE, "test-key"),
      AzureOpenAIConfig("https://different.openai.azure.com/", FALSE, "test-key"),
      AzureOpenAIConfig("https://test.openai.azure.com/", FALSE, None) }

\* JSON of a bool and of an optional string.
JsonBool(b) == IF b THEN "true" ELSE "false"

JsonOptional(text) == IF text = None THEN "null" ELSE "\"" \o text \o "\""

\* The dump of a config without its azure_endpoint.
DumpWithoutEndpoint(config) ==
    "{\"provider\":\"" \o config.provider
        \o "\",\"api_version\":\"" \o config.api_version
        \o "\",\"api_key\":" \o JsonOptional(config.api_key)
        \o ",\"use_entra_id\":" \o JsonBool(config.use_entra_id) \o "}"

\* config.model_dump_json(include={"provider", "azure_endpoint",
\* "api_version", "use_entra_id", "api_key"}), fields in declaration order.
ModelDumpJson(config) ==
    "{\"provider\":\"" \o config.provider
        \o "\",\"azure_endpoint\":\"" \o config.azure_endpoint
        \o "\",\"api_version\":\"" \o config.api_version
        \o "\",\"api_key\":" \o JsonOptional(config.api_key)
        \o ",\"use_entra_id\":" \o JsonBool(config.use_entra_id) \o "}"

\* sha256(text.encode()).hexdigest(): the digest stands for its text, two
\* texts of the model having two digests.
Sha256Hex(text) == "sha256:" \o text

\* AzureOpenAIClient._get_cache_key
GetCacheKey(config) == Sha256Hex(ModelDumpJson(config))

\* `not config.use_entra_id and not config.api_key`: __init__ raises
\* ValueError (the api_key of a config here is None or a non-empty string).
InitRaises(config) == ~config.use_entra_id /\ config.api_key = None

\* A lock that any thread may take at any time.
LockIgnored(lock) == TRUE

\* threading.Lock: acquire returns only when no thread holds the lock.
LockFree(lock) == lock = None

\* A lock that stays with its holder when the block is left by an exception.
KeptOnRaise(holder) == holder

\* `with _cache_lock:` left by an exception: the lock is released.
ReleasedOnRaise(holder) == None

\* The AzureOpenAIClient object of the n-th run of __init__.
ClientOf(n) == n

\* from_cache(config) is called: cache_key = _get_cache_key(config).
CallFromCache(t) ==
    /\ callers[t].pc = "idle"
    /\ callers[t].calls < MaxCalls
    /\ \E config \in Configs :
          callers' = [ callers EXCEPT ![t] =
                         [ pc |-> "waiting", config |-> config,
                           cache_key |-> GetCacheKey(config),
                           returned |-> NoId, raised |-> None,
                           calls |-> @.calls + 1 ] ]
    /\ UNCHANGED << client_cache, cache_lock, constructed >>
    /\ UNCHANGED << visualizer, late, names_vars, api_vars >>

\* with AzureOpenAIClient._cache_lock: the thread gets the lock.
AcquireLock(t) ==
    /\ callers[t].pc = "waiting"
    /\ LockFree(cache_lock)
    /\ cache_lock' = t
    /\ callers' = [ callers EXCEPT ![t].pc = "locked" ]
    /\ UNCHANGED << client_cache, constructed >>
    /\ UNCHANGED << visualizer, late, names_vars, api_vars >>

\* if cache_key not in AzureOpenAIClient._client_cache
CheckCache(t) ==
    /\ callers[t].pc = "locked"
    /\ callers' = [ callers EXCEPT ![t].pc =
                      IF callers[t].cache_key \in DOMAIN client_cache
                      THEN "found" ELSE "constructing" ]
    /\ UNCHANGED << client_cache, cache_lock, constructed >>
    /\ UNCHANGED << visualizer, late, names_vars, api_vars >>

\* _client_cache[cache_key] = AzureOpenAIClient(config): __init__ runs and
\* returns, and the new client is stored.
StoreNewClient(t) ==
    /\ callers[t].pc = "constructing"
    /\ ~InitRaises(callers[t].config)
    /\ constructed' = Append(constructed,
                             [ cache_key |-> callers[t].cache_key,
                               client |-> ClientOf(Len(constructed) + 1) ])
    /\ client_cache' = DictSet(client_cache, callers[t].cache_key,
                               ClientOf(Len(constructed) + 1))
    /\ callers' = [ callers EXCEPT ![t].pc = "found" ]
    /\ UNCHANGED cache_lock
    /\ UNCHANGED << visualizer, late, names_vars, api_vars >>

\* AzureOpenAIClient(config) raises ValueError inside from_cache: nothing
\* is assigned, the with block is left and the caller gets the exception.
ConstructionRaises(t) ==
    /\ callers[t].pc = "constructing"
    /\ InitRaises(callers[t].config)
    /\ constructed' = Append(constructed,
                             [ cache_key |-> callers[t].cache_key,
                               client |-> NoId ])
    /\ cache_lock' = ReleasedOnRaise(cache_lock)
    /\ callers' = [ callers EXCEPT ![t].pc = "idle",
                                   ![t].raised = "ValueError" ]
    /\ UNCHANGED client_cache
    /\ UNCHANGED << visualizer, late, names_vars, api_vars >>

\* return AzureOpenAIClient._client_cache[cache_key]; the lock is released.
ReturnCached(t) ==
    /\ callers[t].pc = "found"
    /\ callers' = [ callers EXCEPT ![t].pc = "idle",
                                   ![t].returned =
                                       client_cache[callers[t].cache_key] ]
    /\ cache_lock' = None
    /\ UNCHANGED << client_cache, constructed >>
    /\ UNCHANGED << visualizer, late, names_vars, api_vars >>

\* AzureOpenAIClient(config) called directly, outside from_cache.
ConstructDirectly(t) ==
    /\ callers[t].pc = "idle"
    /\ callers[t].calls < MaxCalls
    /\ \E config \in Configs :
          /\ constructed' =
                Append(constructed,
                       [ cache_key |-> None,
                         client |-> IF InitRaises(config) THEN NoId
                                    ELSE ClientOf(Len(constructed) + 1) ])
          /\ callers' = [ callers EXCEPT ![t] =
                            [ pc |-> "idle", config |-> config,
                              cache_key |-> None,
                              returned |-> IF InitRaises(config) THEN NoId
                                           ELSE ClientOf(Len(constructed) + 1),
                              raised |-> IF InitRaises(config)
                                         THEN "ValueError" ELSE None,
                              calls |-> @.calls + 1 ] ]
    /\ UNCHANGED << client_cache, cache_lock >>
    /\ UNCHANGED << visualizer, late, names_vars, api_vars >>

NextCache ==
    \E t \in Threads :
        \/ CallFromCache(t)
        \/ AcquireLock(t)
        \/ CheckCache(t)
        \/ StoreNewClient(t)
        \/ ConstructionRaises(t)
        \/ ReturnCached(t)
        \/ ConstructDirectly(t)

SpecCache == Init /\ [][NextCache]_vars

\* The runs of __init__ inside from_cache that returned a client.
CachedConstructions ==
    { i \in DOMAIN constructed :
        constructed[i].cache_key # None /\ constructed[i].client # NoId }

\* The callers whose last from_cache call has returned a client.
Returned ==
    { t \in Threads :
        /\ callers[t].pc = "idle"
        /\ callers[t].cache_key # None
        /\ callers[t].returned # NoId }

\* C28: from_cache returns the one cached client of the config's cache key:
\* a returned client is the cache's entry for the key, callers with the same
\* config hold the same client, an entry of the cache is never replaced or
\* removed, the cache has an entry exactly for the keys a client was
\* constructed for, and no key has two constructed clients, whatever the
\* interleaving of the calling threads.
C28_OneClientPerKey ==
    /\ [](\A t \in Returned :
            /\ callers[t].cache_key \in DOMAIN client_cache
            /\ callers[t].returned = client_cache[callers[t].cache_key])
    /\ [](\A t1 \in Returned : \A t2 \in Returned :
            callers[t1].config = callers[t2].config
                => callers[t1].returned = callers[t2].returned)
    /\ [](DOMAIN client_cache
            = { constructed[i].cache_key : i \in CachedConstructions })
    /\ [](\A i \in CachedConstructions : \A j \in CachedConstructions :
            constructed[i].cache_key = constructed[j].cache_key => i = j)
    /\ [][\A k \in DOMAIN client_cache :
            k \in DOMAIN client_cache' /\ client_cache'[k] = client_cache[k]]_vars

\* Both threads called from_cache once with one config, one client was
\* constructed and both hold it.
C28_Witness ==
    /\ Returned = Threads
    /\ callers["t1"].config = callers["t2"].config
    /\ callers["t1"].calls = 1
    /\ callers["t2"].calls = 1
    /\ callers["t1"].returned = callers["t2"].returned
    /\ Len(constructed) = 1

\* The callers that are in from_cache or have left it: their key is computed.
Keyed == { t \in Threads : callers[t].cache_key # None }

\* C29: the keys _get_cache_key computed for two equal configs are equal, and
\* the keys it computed for two configs with different azure_endpoint differ.
C29_KeyFollowsConfig ==
    \A t1 \in Keyed : \A t2 \in Keyed :
        /\ callers[t1].config = callers[t2].config
              => callers[t1].cache_key = callers[t2].cache_key
        /\ callers[t1].config.azure_endpoint # callers[t2].config.azure_endpoint
              => callers[t1].cache_key # callers[t2].cache_key

\* Two keys were computed for configs that differ in azure_endpoint only;
\* the keys differ and each has its own entry in the cache.
C29_Witness ==
    /\ Keyed = Threads
    /\ callers["t1"].config.azure_endpoint # callers["t2"].config.azure_endpoint
    /\ [ callers["t1"].config EXCEPT !.azure_endpoint =
            callers["t2"].config.azure_endpoint ] = callers["t2"].config
    /\ callers["t1"].cache_key # callers["t2"].cache_key
    /\ callers["t1"].cache_key \in DOMAIN client_cache
    /\ callers["t2"].cache_key \in DOMAIN client_cache

\* The callers whose last construction, direct or in from_cache, raised.
Raised == { t \in Threads : callers[t].raised = "ValueError" }

\* C30: a construction with Entra ID disabled and no API key raises
\* ValueError and gives no client; a ValueError out of from_cache leaves the
\* cache as it was and the lock free, and the lock is only ever held by a
\* thread inside the with block.
C30_RaiseLeavesCacheAndLock ==
    /\ [](\A t \in Threads :
            (callers[t].pc = "idle" /\ callers[t].cache_key = None
               /\ callers[t].config # NoEntry)
                => (callers[t].raised = "ValueError"
                      <=> (~callers[t].config.use_entra_id
                             /\ callers[t].config.api_key = None)))
    /\ [](\A t \in Raised :
            /\ ~callers[t].config.use_entra_id
            /\ callers[t].config.api_key = None
            /\ callers[t].returned = NoId)
    /\ [](\A t \in Threads :
            (callers[t].pc = "constructing"
               /\ ~callers[t].config.use_entra_id
               /\ callers[t].config.api_key = None)
                => ~ENABLED StoreNewClient(t))
    /\ [](cache_lock # None
            => callers[cache_lock].pc \in {"locked", "constructing", "found"})
    /\ [][\A t \in Threads :
            (callers'[t].raised = "ValueError" /\ callers'[t] # callers[t])
                => /\ client_cache' = client_cache
                   /\ constructed'[Len(constructed')].client = NoId
                   /\ callers[t].pc = "constructing" => cache_lock' = None]_vars

\* A from_cache call raised ValueError and a later from_cache call
\* constructed and returned a client.
C30_Witness ==
    /\ \E i \in DOMAIN constructed : \E j \in CachedConstructions :
          /\ i < j
          /\ constructed[i].cache_key # None
          /\ constructed[i].client = NoId
    /\ \E t \in Raised : callers[t].cache_key # None
    /\ \E t \in Returned : callers[t].calls = 1

\* The experiment names the model's requests lead to.
ExperimentNames ==
    { ExperimentName(config, millis) : config \in CreateRequests,
                                       millis \in Millis }

\* C31: an experiment in the tracker eventually has status completed or
\* failed; no background run ends with an escaped exception; and the step
\* in which a run ends leaves its name's entry completed, or failed with the
\* exception's message in error and completed_at set.
C31_RunsEndRecorded ==
    /\ \A n \in ExperimentNames :
          (n \in DOMAIN experiment_tracker)
             ~> ( /\ n \in DOMAIN experiment_tracker
                  /\ experiment_tracker[n].status \in {"completed", "failed"} )
    /\ [](\A i \in DOMAIN background_tasks :
             background_tasks[i].pc \in {"scheduled", "running", "returned"})
    /\ [][ \A i \in DOMAIN background_tasks :
             ( background_tasks[i].pc = "running"
               /\ background_tasks'[i].pc # "running" ) =>
                LET entry == experiment_tracker'[background_tasks[i].experiment_name]
                IN  \/ entry.status = "completed" /\ entry.completed_at # NoId
                    \/ /\ entry.status = "failed"
                       /\ entry.completed_at # NoId
                       /\ \E e \in Raisable : entry.error = e.args[1]
         ]_vars

\* One run has returned and one has failed, each recorded under its name.
C31_Witness ==
    /\ Len(background_tasks) = 2
    /\ \A i \in DOMAIN background_tasks : background_tasks[i].pc = "returned"
    /\ background_tasks[1].experiment_name # background_tasks[2].experiment_name
    /\ experiment_tracker[background_tasks[1].experiment_name].status = "completed"
    /\ experiment_tracker[background_tasks[2].experiment_name].status = "failed"
    /\ experiment_tracker[background_tasks[2].experiment_name].error
          = "experiment error"

\* The background run i was scheduled for an entry that a later accepted
\* create of the same name has replaced since.
Superseded(i) ==
    \E j \in DOMAIN background_tasks :
        /\ j > i
        /\ background_tasks[j].experiment_name
              = background_tasks[i].experiment_name

\* C32: a step of a background run whose entry has been replaced by a later
\* create of the same name (override=true) leaves the new entry as it is.
C32_RunWritesOwnEntryOnly ==
    [][ \A i \in DOMAIN background_tasks :
          ( background_tasks'[i].pc # background_tasks[i].pc /\ Superseded(i) )
             => experiment_tracker'[background_tasks[i].experiment_name]
                   = experiment_tracker[background_tasks[i].experiment_name]
      ]_vars

\* C33: every message stored in a thread is of the thread's own pair: a
\* search message was issued by the thread's customer and its result lists
\* the thread's business, any other message goes between the thread's
\* customer and business, in either direction.
C33_MessagesOfOwnPair ==
    \A k \in DOMAIN threads : \A i \in DOMAIN threads[k].messages :
        LET m == threads[k].messages[i]
            p == threads[k].participants
        IN  IF m.type = "search"
            THEN /\ m.from_agent = p.customer.id
                 /\ p.business.id \in Elements(m.content.business_ids)
            ELSE { m.from_agent, m.to_agent }
                    = { p.customer.id, p.business.id }

(***************************************************************************)
(* api/main.py: list_experiments; unified_server.py: the {schema} path     *)
(* parameter of the visualizer endpoints                                   *)
(***************************************************************************)

\* The names a schema of the database or a {schema} path segment can have,
\* as characters of Alphabet: exp_7, a name with a hyphen such as
\* test-experiment, and a name that starts with a digit.
SchemaTexts == { <<"a", "_", "7">>, <<"a", "-", "Z">>, <<"7", "a">> }

\* The results of the query on information_schema.schemata: distinct schema
\* names (GROUP BY s.schema_name).
SchemaRows ==
    { rows \in UNION { [ 1..n -> SchemaTexts ] : n \in 0..MaxSchemas } :
        \A i \in DOMAIN rows : \A j \in DOMAIN rows :
            rows[i] = rows[j] => i = j }

\* What asyncpg.connect raises, and what a query raises.
ConnectErrors == { "InvalidCatalogNameError", "InvalidPasswordError", "OSError" }

QueryErrors == { "UndefinedTableError" }

\* The except clauses of list_experiments, in order.
ErrorStatus(exc) ==
    IF exc = "InvalidCatalogNameError" THEN 404
    ELSE IF exc = "InvalidPasswordError" THEN 401
    ELSE 500

\* A close that is reached only when the try block ends without exception.
ClosedOnSuccessOnly(exc) == exc = None

\* finally: await conn.close() runs however the try block ends.
ClosedInFinally(exc) == TRUE

\* conn = await asyncpg.connect(...): the connection opens, or the call
\* raises and an except clause answers.
ListConnect ==
    /\ lister.pc \in {"idle", "responded"}
    /\ lister.calls < MaxLists
    /\ \/ /\ connections' = Append(connections, [ open |-> TRUE, closes |-> 0 ])
          /\ lister' = [ IdleLister EXCEPT !.pc = "connected",
                                           !.calls = lister.calls + 1 ]
       \/ \E exc \in ConnectErrors :
             /\ lister' = [ IdleLister EXCEPT
                              !.pc = "responded",
                              !.calls = lister.calls + 1,
                              !.exc = exc,
                              !.response = HttpError(ErrorStatus(exc), exc) ]
             /\ UNCHANGED connections
    /\ UNCHANGED << passed, generate, visualizer, names_vars, api_vars,
                    cache_vars >>

\* rows = await conn.fetch(query): the schema rows, or an exception.
ListFetch ==
    /\ lister.pc = "connected"
    /\ \/ \E rows \in SchemaRows :
             lister' = [ lister EXCEPT !.pc = "rows", !.rows = rows, !.idx = 1 ]
       \/ \E exc \in QueryErrors :
             lister' = [ lister EXCEPT !.pc = "finally", !.exc = exc ]
    /\ UNCHANGED << connections, passed, generate, visualizer, names_vars,
                    api_vars, cache_vars >>

\* One pass of `for row in rows`: the schema lacks a table and is skipped;
\* or its name is put into the f-string queries and the schema is listed
\* (an exception of the provider query is swallowed and changes nothing
\* else); or one of the other f-string queries raises.
ListRow ==
    /\ lister.pc = "rows"
    /\ lister.idx <= Len(lister.rows)
    /\ LET schema_name == lister.rows[lister.idx]
       IN  \/ lister' = [ lister EXCEPT !.idx = @ + 1 ]
           \/ lister' = [ lister EXCEPT
                           !.idx = @ + 1,
                           !.interpolated = Append(@, schema_name),
                           !.listed = @ + 1 ]
           \/ \E exc \in QueryErrors :
                 lister' = [ lister EXCEPT
                               !.pc = "finally",
                               !.interpolated = Append(@, schema_name),
                               !.exc = exc ]
    /\ UNCHANGED << connections, passed, generate, visualizer, names_vars,
                    api_vars, cache_vars >>

\* The loop is over: sort, limit, return experiments.
ListReturn ==
    /\ lister.pc = "rows"
    /\ lister.idx > Len(lister.rows)
    /\ lister' = [ lister EXCEPT !.pc = "finally" ]
    /\ UNCHANGED << connections, passed, generate, visualizer, names_vars,
                    api_vars, cache_vars >>

\* finally: await conn.close(); then the list is the response, or an
\* except clause answers.
ListClose ==
    /\ lister.pc = "finally"
    /\ connections' =
          IF ClosedInFinally(lister.exc)
          THEN [ connections EXCEPT ![Len(connections)] =
                   [ open |-> FALSE, closes |-> @.closes + 1 ] ]
          ELSE connections
    /\ lister' = [ lister EXCEPT
                     !.pc = "responded",
                     !.response =
                        IF lister.exc = None
                        THEN [ status_code |-> 200, body |-> lister.listed ]
                        ELSE HttpError(ErrorStatus(lister.exc), lister.exc) ]
    /\ UNCHANGED << passed, generate, visualizer, names_vars, api_vars,
                    cache_vars >>

\* GET /api/visualizer/{schema}/customers, /businesses or /marketplace-data:
\* the path segment goes to connect_to_postgresql_database(schema=schema).
VisualizerConnect ==
    /\ \E schema \in SchemaTexts : passed' = passed \cup {schema}
    /\ UNCHANGED << lister, connections, generate, visualizer, names_vars,
                    api_vars, cache_vars >>

NextList ==
    \/ ListConnect
    \/ ListFetch
    \/ ListRow
    \/ ListReturn
    \/ ListClose
    \/ VisualizerConnect

SpecList == Init /\ [][NextList]_vars

\* C34: every schema name list_experiments has put into SQL text, and every
\* schema the visualizer endpoints have passed to the database connection,
\* satisfies validate_schema_name.
C34_OnlyValidatedNames ==
    /\ \A i \in DOMAIN lister.interpolated :
          validate_schema_name([ is_none |-> FALSE,
                                 chars |-> lister.interpolated[i] ])
    /\ \A schema \in passed :
          validate_schema_name([ is_none |-> FALSE, chars |-> schema ])

\* C35: when list_experiments has answered, every connection it opened is
\* closed and was closed once; no connection is ever closed twice; a
\* failed connect is answered 404, 401 or 500 by its kind and opens no
\* connection; and the connection is still open while the queries run.
C35_ConnectionClosedOnce ==
    /\ [](lister.pc = "responded" =>
             \A c \in DOMAIN connections :
                 ~connections[c].open /\ connections[c].closes = 1)
    /\ [](\A c \in DOMAIN connections : connections[c].closes <= 1)
    /\ [](lister.pc \in {"connected", "rows", "finally"} =>
             /\ connections # <<>>
             /\ connections[Len(connections)].open)
    /\ [][ ( lister.pc \in {"idle", "responded"}
             /\ lister'.pc = "responded" /\ lister'.calls # lister.calls ) =>
               /\ connections' = connections
               /\ lister'.response.status_code =
                     IF lister'.exc = "InvalidCatalogNameError" THEN 404
                     ELSE IF lister'.exc = "InvalidPasswordError" THEN 401
                     ELSE 500
         ]_vars

\* A second call of list_experiments has answered 500 after a query on an
\* interpolated schema name raised; both calls' connections are closed.
C35_Witness ==
    /\ lister.pc = "responded"
    /\ lister.calls = 2
    /\ lister.exc \in QueryErrors
    /\ lister.interpolated # <<>>
    /\ lister.response.status_code = 500
    /\ Len(connections) = 2
    /\ \A c \in DOMAIN connections : connections[c].closes = 1

(***************************************************************************)
(* marketplace/llm/clients/azure_openai.py: AzureOpenAIClient._generate    *)
(***************************************************************************)

\* An optional argument: the empty tuple for None, a one-tuple for a value.
Nothing == <<>>

Some(value) == << value >>

\* The deployment names of the calls, as their characters: gpt-4o, gpt-5,
\* gpt-5-chat, o1-mini, o3 and o4-mini.
ModelNames ==
    { <<"g", "p", "t", "-", "4", "o">>,
      <<"g", "p", "t", "-", "5">>,
      <<"g", "p", "t", "-", "5", "-", "c", "h", "a", "t">>,
      <<"o", "1", "-", "m", "i", "n", "i">>,
      <<"o", "3">>,
      <<"o", "4", "-", "m", "i", "n", "i">> }

\* `sub in text` of two strings.
Contains(text, sub) ==
    \E i \in 1..(Len(text) - Len(sub) + 1) :
        SubSeq(text, i, i + Len(sub) - 1) = sub

\* any(reasoning_model in model for reasoning_model in
\*     ("gpt-5", "o4", "o3", "o1"))
IsReasoningModel(model) ==
    \E reasoning_model \in { <<"g", "p", "t", "-", "5">>, <<"o", "4">>,
                             <<"o", "3">>, <<"o", "1">> } :
        Contains(model, reasoning_model)

\* The temperatures of the calls in tenths: None, 0.0, 0.5, 1.0.
Temperatures == { Nothing, Some(0), Some(5), Some(10) }

\* The max_tokens of the calls.
MaxTokenses == { Nothing, Some(0), Some(100) }

\* The reasoning_effort of the calls.
Efforts == { Nothing, Some("minimal"), Some("high") }

\* The **kwargs of the calls.
Kwargses == { <<>>, [ seed |-> 7 ] }

\* The chat history a call starts with.
Prompt == << [ role |-> "user", content |-> "prompt" ] >>

\* args.update(kwargs)
DictUpdate(d, kwargs) ==
    [ x \in DOMAIN d \cup DOMAIN kwargs |->
        IF x \in DOMAIN kwargs THEN kwargs[x] ELSE d[x] ]

\* The local temperature after the reasoning-model branch: a truthy
\* temperature below 1.0 becomes None unless the model is gpt-5-chat.
LocalTemperature(model, temperature) ==
    IF /\ IsReasoningModel(model)
       /\ ~Contains(model, <<"g", "p", "t", "-", "5", "-", "c", "h", "a", "t">>)
       /\ temperature # Nothing
       /\ temperature[1] # 0
       /\ temperature[1] < 10
    THEN Nothing
    ELSE temperature

\* The args dict of _generate before args.update(kwargs).
BuildArgs(model, chat, temperature, max_tokens, reasoning_effort) ==
    LET base == [ model |-> model, messages |-> chat ]
    IN  IF IsReasoningModel(model)
        THEN LET withTokens ==
                    IF max_tokens # Nothing /\ max_tokens[1] # 0
                    THEN DictSet(base, "max_completion_tokens", max_tokens[1])
                    ELSE base
             IN  IF reasoning_effort # Nothing /\ ~Contains(model, <<"o", "1">>)
                 THEN DictSet(withTokens, "reasoning_effort",
                              IF reasoning_effort[1] = "minimal" THEN "low"
                              ELSE reasoning_effort[1])
                 ELSE withTokens
        ELSE LET withTemperature ==
                    IF temperature # Nothing
                    THEN DictSet(base, "temperature", temperature[1])
                    ELSE base
             IN  IF max_tokens # Nothing
                 THEN DictSet(withTemperature, "max_tokens", max_tokens[1])
                 ELSE withTemperature

\* for _ in range(3)
Attempts == 3

\* A loop that makes one attempt more.
OneMoreAttempt(attempt) == attempt <= Attempts

\* The loop has an iteration left after `attempt` iterations.
LoopGoesOn(attempt) == attempt < Attempts

\* What chat.completions.parse gives: a response with a parsed object, a
\* refusal or neither, with or without usage, or an exception.
ParseOutcomes ==
    { [ raised |-> NoEntry, parsed |-> "parsed", refusal |-> None,
        usage |-> Some(42) ],
      [ raised |-> NoEntry, parsed |-> "parsed", refusal |-> None,
        usage |-> Nothing ],
      [ raised |-> NoEntry, parsed |-> None, refusal |-> "refused",
        usage |-> Some(42) ],
      [ raised |-> NoEntry, parsed |-> None, refusal |-> None,
        usage |-> Some(42) ],
      [ raised |-> NoEntry, parsed |-> None, refusal |-> "",
        usage |-> Some(42) ],
      [ raised |-> [ type |-> "APITimeoutError",
                     args |-> <<"Request timed out.">> ],
        parsed |-> None, refusal |-> None, usage |-> Nothing ] }

\* Usage(token_count=response.usage.total_tokens if response.usage else 0,
\*       provider="azure_openai", model=model)
UsageOf(completion, model) ==
    [ token_count |-> IF completion.usage = Nothing THEN 0
                      ELSE completion.usage[1],
      provider |-> "azure_openai",
      model |-> model ]

\* The exception an attempt ends in, NoEntry when it ends in none: the one
\* parse raised, or ValueError(refusal) for a response without a parsed
\* object and with a refusal.
AttemptError(completion) ==
    IF completion.raised # NoEntry THEN completion.raised
    ELSE IF completion.parsed = None /\ completion.refusal \notin {None, ""}
    THEN [ type |-> "ValueError", args |-> << completion.refusal >> ]
    ELSE NoEntry

\* An except clause that leaves the chat history alone.
NoRetryMessage(e) == <<>>

\* {"role": "user", "content": str(e)}, as the list appended to messages.
RetryMessage(e) == << [ role |-> "user", content |-> Str(e) ] >>

\* " ".join(map(str, exceptions))
RECURSIVE JoinStr(_)
JoinStr(exceptions) ==
    IF exceptions = <<>> THEN ""
    ELSE IF Len(exceptions) = 1 THEN Str(exceptions[1])
    ELSE Str(exceptions[1]) \o " " \o JoinStr(Tail(exceptions))

\* The RuntimeError raised after the loop.
ExceededAttempts(exceptions) ==
    [ type |-> "RuntimeError",
      args |-> << "Exceeded attempts to parse response_format."
                    \o ( IF exceptions # <<>>
                         THEN "Inner exceptions: " \o JoinStr(exceptions)
                         ELSE "" ) >> ]

\* _generate is called once: the args are built, up to the first API call.
GenerateCall ==
    /\ generate.pc = "idle"
    /\ \E model \in ModelNames, temperature \in Temperatures,
          max_tokens \in MaxTokenses, reasoning_effort \in Efforts,
          structured \in BOOLEAN, kwargs \in Kwargses :
          generate' =
             [ pc |-> IF structured THEN "parsing" ELSE "creating",
               model |-> model,
               given |-> [ temperature |-> temperature,
                           max_tokens |-> max_tokens,
                           reasoning_effort |-> reasoning_effort,
                           structured |-> structured,
                           kwargs |-> kwargs ],
               temperature |-> LocalTemperature(model, temperature),
               args |-> DictUpdate(BuildArgs(model, Prompt, temperature,
                                             max_tokens, reasoning_effort),
                                   kwargs),
               attempt |-> 0,
               exceptions |-> <<>>,
               sent |-> <<>>,
               result |-> NoEntry ]
    /\ UNCHANGED << list_vars, visualizer, names_vars, api_vars, cache_vars >>

\* One iteration of the retry loop and, when the loop ends with it, the
\* raise after the loop.
ParseAttempt ==
    /\ generate.pc = "parsing"
    /\ LoopGoesOn(generate.attempt)
    /\ \E completion \in ParseOutcomes :
          LET call == [ api |-> "parse", args |-> generate.args,
                        response |-> completion ]
              e == AttemptError(completion)
              exceptions == Append(generate.exceptions, e)
              args == [ generate.args EXCEPT
                          !.messages = @ \o RetryMessage(e) ]
          IN  IF completion.raised = NoEntry /\ completion.parsed # None
              THEN generate' =
                     [ generate EXCEPT
                         !.pc = "done",
                         !.attempt = @ + 1,
                         !.sent = Append(@, call),
                         !.result = [ kind |-> "returned",
                                      value |-> completion.parsed,
                                      usage |-> UsageOf(completion,
                                                        generate.model) ] ]
              ELSE IF e = NoEntry
              THEN generate' =
                     [ generate EXCEPT
                         !.pc = "done",
                         !.attempt = @ + 1,
                         !.sent = Append(@, call),
                         !.result = [ kind |-> "raised",
                                      exception |->
                                         ExceededAttempts(generate.exceptions) ] ]
              ELSE IF LoopGoesOn(generate.attempt + 1)
              THEN generate' =
                     [ generate EXCEPT
                         !.attempt = @ + 1,
                         !.sent = Append(@, call),
                         !.exceptions = exceptions,
                         !.args = args ]
              ELSE generate' =
                     [ generate EXCEPT
                         !.pc = "done",
                         !.attempt = @ + 1,
                         !.sent = Append(@, call),
                         !.exceptions = exceptions,
                         !.args = args,
                         !.result = [ kind |-> "raised",
                                      exception |->
                                         ExceededAttempts(exceptions) ] ]
    /\ UNCHANGED << list_vars, visualizer, names_vars, api_vars, cache_vars >>

\* The contents chat.completions.create gives: no choice or no content, an
\* empty content, a text.
Contents == { None, "", "text" }

\* Regular completion: the content of the first choice, or "".
CreateCompletion ==
    /\ generate.pc = "creating"
    /\ \E content \in Contents, usage \in { Nothing, Some(42) } :
          LET completion == [ raised |-> NoEntry, content |-> content,
                            usage |-> usage ]
          IN  generate' =
                 [ generate EXCEPT
                     !.pc = "done",
                     !.sent = Append(@, [ api |-> "create",
                                          args |-> generate.args,
                                          response |-> completion ]),
                     !.result = [ kind |-> "returned",
                                  value |-> IF content \in {None, ""} THEN ""
                                            ELSE content,
                                  usage |-> UsageOf(completion, generate.model) ] ]
    /\ UNCHANGED << list_vars, visualizer, names_vars, api_vars, cache_vars >>

NextGenerate ==
    \/ GenerateCall
    \/ ParseAttempt
    \/ CreateCompletion

SpecGenerate == Init /\ [][NextGenerate]_vars

\* The chat.completions.parse call of a history gave a parsed object.
HasParsed(call) ==
    call.response.raised = NoEntry /\ call.response.parsed # None

\* The call ended in an exception or in a refusal.
HasError(call) ==
    \/ call.response.raised # NoEntry
    \/ call.response.parsed = None /\ call.response.refusal \notin {None, ""}

\* The error text of such a call.
ErrorText(call) ==
    IF call.response.raised # NoEntry THEN call.response.raised.args[1]
    ELSE call.response.refusal

\* A structured-output call of _generate is under way or over.
Structured == generate.pc # "idle" /\ generate.given.structured

\* C36: a structured-output call makes at most 3 parse calls and is over
\* once 3 are made; it ends by returning the first parsed object that is
\* not null, with the usage of that response, and no call follows it;
\* without such an object it ends by raising RuntimeError.
C36_AtMostThreeParseCalls ==
    Structured =>
        /\ Len(generate.sent) <= 3
        /\ \A k \in DOMAIN generate.sent : generate.sent[k].api = "parse"
        /\ generate.pc = "parsing" =>
              /\ Len(generate.sent) < 3
              /\ \A k \in DOMAIN generate.sent : ~HasParsed(generate.sent[k])
        /\ generate.pc = "done" =>
              IF \E k \in DOMAIN generate.sent : HasParsed(generate.sent[k])
              THEN LET last == generate.sent[Len(generate.sent)]
                   IN  /\ HasParsed(last)
                       /\ \A k \in 1..(Len(generate.sent) - 1) :
                             ~HasParsed(generate.sent[k])
                       /\ generate.result.kind = "returned"
                       /\ generate.result.value = last.response.parsed
                       /\ generate.result.value # None
                       /\ generate.result.usage =
                             [ token_count |->
                                  IF last.response.usage = <<>> THEN 0
                                  ELSE last.response.usage[1],
                               provider |-> "azure_openai",
                               model |-> generate.model ]
              ELSE /\ generate.result.kind = "raised"
                   /\ generate.result.exception.type = "RuntimeError"

\* The third parse call of a structured-output call gave the first parsed
\* object and the call returned it.
C36_Witness ==
    /\ Structured
    /\ generate.pc = "done"
    /\ Len(generate.sent) = 3
    /\ HasParsed(generate.sent[3])
    /\ generate.result.kind = "returned"

\* C37: the k-th parse call is sent with the prompt and one user message
\* for each of the k-1 attempts before it, carrying that attempt's error
\* text, in order; the chat history holds one such message per attempt that
\* ended in an exception or a refusal; and a response with neither a parsed
\* object nor a refusal is the last call and ends in RuntimeError.
C37_OneMessagePerFailedAttempt ==
    Structured =>
        /\ \A k \in DOMAIN generate.sent :
              /\ generate.sent[k].args.messages
                    = Prompt \o [ j \in 1..(k - 1) |->
                                    [ role |-> "user",
                                      content |-> ErrorText(generate.sent[j]) ] ]
              /\ \A j \in 1..(k - 1) : HasError(generate.sent[j])
        /\ Len(generate.args.messages)
              = Len(Prompt)
                  + Cardinality({ k \in DOMAIN generate.sent :
                                    HasError(generate.sent[k]) })
        /\ \A k \in DOMAIN generate.sent :
              ( ~HasError(generate.sent[k]) /\ ~HasParsed(generate.sent[k]) )
                 => /\ k = Len(generate.sent)
                    /\ generate.pc = "done"
                    /\ generate.result.kind = "raised"
                    /\ generate.result.exception.type = "RuntimeError"

\* After a refusal and an exception the third response had neither a parsed
\* object nor a refusal: three calls, two messages added, RuntimeError.
C37_Witness ==
    /\ Structured
    /\ generate.pc = "done"
    /\ Len(generate.sent) = 3
    /\ generate.sent[1].response.raised = NoEntry /\ HasError(generate.sent[1])
    /\ generate.sent[2].response.raised # NoEntry
    /\ ~HasError(generate.sent[3]) /\ ~HasParsed(generate.sent[3])
    /\ Len(generate.sent[3].args.messages) = Len(Prompt) + 2
    /\ generate.result.kind = "raised"

\* C38: the args sent follow the model kind. For a model whose name holds
\* gpt-5, o4, o3 or o1: no max_tokens, a given non-zero max_tokens as
\* max_completion_tokens, reasoning_effort with minimal turned into low
\* and none for o1, a temperature below 1 dropped unless the model is
\* gpt-5-chat and any other given temperature forwarded. For any other
\* model: temperature and max_tokens forwarded when given, no
\* reasoning_effort, no max_completion_tokens.
C38_ArgsFollowModelKind ==
    generate.pc # "idle" =>
        LET args == generate.args
            given == generate.given
            model == generate.model
            chatModel == <<"g", "p", "t", "-", "5", "-", "c", "h", "a", "t">>
        IN  IF \E sub \in { <<"g", "p", "t", "-", "5">>, <<"o", "4">>,
                            <<"o", "3">>, <<"o", "1">> } : Contains(model, sub)
            THEN /\ "max_tokens" \notin DOMAIN args
                 /\ "max_completion_tokens" \in DOMAIN args
                       => /\ given.max_tokens # <<>>
                          /\ args.max_completion_tokens = given.max_tokens[1]
                 /\ ( given.max_tokens # <<>> /\ given.max_tokens[1] # 0 )
                       => "max_completion_tokens" \in DOMAIN args
                 /\ IF given.reasoning_effort = <<>>
                       \/ Contains(model, <<"o", "1">>)
                    THEN "reasoning_effort" \notin DOMAIN args
                    ELSE /\ "reasoning_effort" \in DOMAIN args
                         /\ args.reasoning_effort =
                               IF given.reasoning_effort[1] = "minimal"
                               THEN "low" ELSE given.reasoning_effort[1]
                 /\ IF given.temperature = <<>>
                    THEN "temperature" \notin DOMAIN args
                    ELSE IF given.temperature[1] < 10
                            /\ ~Contains(model, chatModel)
                    THEN "temperature" \notin DOMAIN args
                    ELSE /\ "temperature" \in DOMAIN args
                         /\ args.temperature = given.temperature[1]
            ELSE /\ "reasoning_effort" \notin DOMAIN args
                 /\ "max_completion_tokens" \notin DOMAIN args
                 /\ IF given.temperature = <<>>
                    THEN "temperature" \notin DOMAIN args
                    ELSE /\ "temperature" \in DOMAIN args
                         /\ args.temperature = given.temperature[1]
                 /\ IF given.max_tokens = <<>>
                    THEN "max_tokens" \notin DOMAIN args
                    ELSE /\ "max_tokens" \in DOMAIN args
                         /\ args.max_tokens = given.max_tokens[1]

====
